---- MODULE Spec2Model ----
(***************************************************************************)
(* email-sleuth: the per-contact engine (EmailSleuth::find_email) with the *)
(* pattern generator, the scraper's result list, the mail-server lookup,   *)
(* the SMTP prober/verifier, scoring, sorting and selection.               *)
(*                                                                         *)
(* Strings are sequences of one-character strings, so that contains,       *)
(* split, to_lowercase and the email regex are computed, not assumed.      *)
(***************************************************************************)
EXTENDS Integers, Sequences, FiniteSets, TLC

(* ------------------------------------------------------------------ *)
(* Bounds of the model                                                 *)
(* ------------------------------------------------------------------ *)
\* number of distinct hash seeds (std RandomState instances) explored
MaxSeed == 2
\* modulus of the modelled bucket function of a HashSet
HashModulus == 17
\* how many times find_email is run for the same contact and stubs
MaxRuns == 2

(* ------------------------------------------------------------------ *)
(* Characters and string helpers                                       *)
(* ------------------------------------------------------------------ *)
LowerLetters == {"a","b","c","d","e","f","g","h","i","j","k","l","m",
                 "n","o","p","q","r","s","t","u","v","w","x","y","z"}
UpperLetters == {"A","B","C","D","E","F","G","H","I","J","K","L","M",
                 "N","O","P","Q","R","S","T","U","V","W","X","Y","Z"}
Digits == {"0","1","2","3","4","5","6","7","8","9"}
Whitespace == {" "}

UpperSeq == <<"A", "B", "C", "D", "E", "F", "G", "H", "I", "J", "K", "L", "M", "N", "O", "P", "Q", "R", "S", "T", "U", "V", "W", "X", "Y", "Z">>
LowerSeq == <<"a", "b", "c", "d", "e", "f", "g", "h", "i", "j", "k", "l", "m", "n", "o", "p", "q", "r", "s", "t", "u", "v", "w", "x", "y", "z">>

\* char::to_lowercase on ASCII
LowerChar(c) ==
    IF c \in UpperLetters
    THEN LowerSeq[CHOOSE i \in 1..26 : UpperSeq[i] = c]
    ELSE c

\* str::to_lowercase
to_lowercase(s) == [i \in 1..Len(s) |-> LowerChar(s[i])]

\* str::contains(&str)
Contains(s, t) ==
    \E i \in 0..(Len(s) - Len(t)) : SubSeq(s, i + 1, i + Len(t)) = t

\* str::contains(char)
ContainsChar(s, c) == \E i \in 1..Len(s) : s[i] = c

\* str::ends_with
EndsWith(s, t) ==
    Len(s) >= Len(t) /\ SubSeq(s, Len(s) - Len(t) + 1, Len(s)) = t

\* positions of '@' in s
AtPositions(s) == {i \in 1..Len(s) : s[i] = "@"}

Min(S) == CHOOSE x \in S : \A y \in S : x <= y
Max(S) == CHOOSE x \in S : \A y \in S : x >= y

\* email.split('@').get(0): the text before the first '@' (all of it if none)
SplitAt0(s) ==
    IF AtPositions(s) = {} THEN s ELSE SubSeq(s, 1, Min(AtPositions(s)) - 1)

\* email.split('@').get(1).unwrap_or(""): the text between the first and the
\* second '@' (to the end if there is no second one, "" if there is no '@')
SplitAt1(s) ==
    IF AtPositions(s) = {} THEN << >>
    ELSE LET p == Min(AtPositions(s))
             rest == {q \in AtPositions(s) : q > p}
         IN  IF rest = {} THEN SubSeq(s, p + 1, Len(s))
             ELSE SubSeq(s, p + 1, Min(rest) - 1)

\* str::trim followed by replace(char::is_whitespace, "")
RECURSIVE RemoveWhitespace(_)
RemoveWhitespace(s) ==
    IF s = << >> THEN << >>
    ELSE IF Head(s) \in Whitespace THEN RemoveWhitespace(Tail(s))
    ELSE <<Head(s)>> \o RemoveWhitespace(Tail(s))

\* sanitize_name_part
sanitize_name_part(part) == to_lowercase(RemoveWhitespace(part))

(* ------------------------------------------------------------------ *)
(* CONFIG.email_regex:                                                 *)
(*   \b[A-Za-z0-9._%+-]+@[A-Za-z0-9.-]+\.[A-Z|a-z]{2,}\b               *)
(* ------------------------------------------------------------------ *)
IsWordChar(c) == c \in LowerLetters \cup UpperLetters \cup Digits \cup {"_"}
LocalClass == LowerLetters \cup UpperLetters \cup Digits \cup {".", "_", "%", "+", "-"}
DomainClass == LowerLetters \cup UpperLetters \cup Digits \cup {".", "-"}
TldClass == LowerLetters \cup UpperLetters \cup {"|"}

\* \b between positions i-1 and i of s (i in 1..Len(s)+1)
WordBoundary(s, i) ==
    LET before == i > 1 /\ IsWordChar(s[i - 1])
        after == i <= Len(s) /\ IsWordChar(s[i])
    IN  before # after

\* Regex::is_match: some substring of s matches
email_regex_is_match(s) ==
    \E a \in AtPositions(s) :
        /\ \E i \in 1..(a - 1) :
              /\ \A k \in i..(a - 1) : s[k] \in LocalClass
              /\ WordBoundary(s, i)
        /\ \E d \in (a + 2)..Len(s) :
              /\ s[d] = "."
              /\ \A k \in (a + 1)..(d - 1) : s[k] \in DomainClass
              /\ \E e \in (d + 2)..Len(s) :
                    /\ \A k \in (d + 1)..e : s[k] \in TldClass
                    /\ WordBoundary(s, e + 1)

(* ------------------------------------------------------------------ *)
(* std::collections::HashSet: insertion removes duplicates, iteration  *)
(* order is unspecified and depends on the instance's random hash      *)
(* state. An order is one of the permutations a seed selects.          *)
(* ------------------------------------------------------------------ *)
HashSeeds == 1..MaxSeed

\* the inserted values, each once, in order of first insertion
RECURSIVE Dedup(_)
Dedup(s) ==
    IF s = << >> THEN << >>
    ELSE LET front == Dedup(SubSeq(s, 1, Len(s) - 1))
             x == s[Len(s)]
         IN  IF \E i \in 1..Len(front) : front[i] = x THEN front
             ELSE Append(front, x)

\* bucket of the i-th distinct value under a seed
Bucket(i, seed) == (i * seed) % HashModulus

\* HashSet::iter / into_iter: the distinct values in bucket order
HashSetIter(inserted, seed) ==
    LET u == Dedup(inserted)
        n == Len(u)
        Before(j, i) ==
            \/ Bucket(j, seed) < Bucket(i, seed)
            \/ Bucket(j, seed) = Bucket(i, seed) /\ j < i
        At(p) == CHOOSE i \in 1..n :
                    Cardinality({j \in 1..n : Before(j, i)}) = p - 1
    IN  [p \in 1..n |-> u[At(p)]]

InSeq(x, s) == \E i \in 1..Len(s) : s[i] = x

(* ------------------------------------------------------------------ *)
(* patterns.rs: generate_email_patterns                                *)
(* ------------------------------------------------------------------ *)
\* chars().next().unwrap_or_default(): the first character, NUL if none
Nul == "NUL"
FirstChar(s) == IF s = << >> THEN <<Nul>> ELSE <<s[1]>>

\* the strings inserted into the `patterns` HashSet, in program order
PatternInserts(first, last, domain) ==
    LET fi == FirstChar(first)
        li == FirstChar(last)
        at == <<"@">> \o domain
        fixed ==
          << first \o at,
             first \o <<".">> \o last \o at,
             first \o last,
             last \o <<".">> \o first \o at,
             last \o first,
             fi \o last,
             fi \o <<".">> \o last \o at,
             first \o li,
             first \o <<".">> \o li \o at,
             first \o <<"_">> \o last \o at,
             first \o <<"-">> \o last \o at,
             last \o <<"_">> \o first \o at,
             last \o <<"-">> \o first \o at >>
        f3 == IF Len(first) >= 3 THEN << SubSeq(first, 1, 3) \o last >> ELSE << >>
        l3 == IF Len(last) >= 3 THEN << first \o SubSeq(last, 1, 3) >> ELSE << >>
    IN  fixed \o f3 \o l3

\* map: a pattern without '@' gets "@domain" appended
CompletePattern(p, domain) ==
    IF ~ContainsChar(p, "@") THEN p \o <<"@">> \o domain ELSE p

\* variant without the emptiness test on the sanitised names (lines 46-54)
generate_email_patterns_raw_check_only(first_name, last_name, domain, seed) ==
    IF \/ first_name = << >> \/ last_name = << >> \/ domain = << >>
       \/ ~ContainsChar(domain, ".")
    THEN << >>
    ELSE LET first == sanitize_name_part(first_name)
             last == sanitize_name_part(last_name)
             it == HashSetIter(PatternInserts(first, last, domain), seed)
             mapped == [i \in 1..Len(it) |-> CompletePattern(it[i], domain)]
         IN  SelectSeq(mapped, email_regex_is_match)

generate_email_patterns(first_name, last_name, domain, seed) ==
    IF \/ first_name = << >> \/ last_name = << >> \/ domain = << >>
       \/ ~ContainsChar(domain, ".")
    THEN << >>
    ELSE LET first == sanitize_name_part(first_name)
             last == sanitize_name_part(last_name)
         IN  IF first = << >> \/ last = << >> THEN << >>
             ELSE LET it == HashSetIter(PatternInserts(first, last, domain), seed)
                      mapped == [i \in 1..Len(it) |-> CompletePattern(it[i], domain)]
                  IN  SelectSeq(mapped, email_regex_is_match)

(* ------------------------------------------------------------------ *)
(* config.rs: the parts of CONFIG the engine reads                     *)
(* ------------------------------------------------------------------ *)
generic_email_prefixes ==
    { <<"i", "n", "f", "o">>, <<"c", "o", "n", "t", "a", "c", "t">>, <<"h", "e", "l", "l", "o">>, <<"h", "e", "l", "p">>, <<"s", "u", "p", "p", "o", "r", "t">>, <<"a", "d", "m", "i", "n">>,
      <<"o", "f", "f", "i", "c", "e">>, <<"s", "a", "l", "e", "s">>, <<"p", "r", "e", "s", "s">>, <<"m", "e", "d", "i", "a">>, <<"m", "a", "r", "k", "e", "t", "i", "n", "g">>, <<"j", "o", "b", "s">>,
      <<"c", "a", "r", "e", "e", "r", "s">>, <<"h", "i", "r", "i", "n", "g">>, <<"p", "r", "i", "v", "a", "c", "y">>, <<"s", "e", "c", "u", "r", "i", "t", "y">>, <<"l", "e", "g", "a", "l">>,
      <<"m", "e", "m", "b", "e", "r", "s", "h", "i", "p">>, <<"t", "e", "a", "m">>, <<"p", "e", "o", "p", "l", "e">>, <<"g", "e", "n", "e", "r", "a", "l">>, <<"f", "e", "e", "d", "b", "a", "c", "k">>,
      <<"e", "n", "q", "u", "i", "r", "i", "e", "s">>, <<"i", "n", "q", "u", "i", "r", "i", "e", "s">>, <<"m", "a", "i", "l">>, <<"e", "m", "a", "i", "l">>, <<"p", "i", "t", "c", "h">>, <<"i", "n", "v", "e", "s", "t">>,
      <<"i", "n", "v", "e", "s", "t", "o", "r", "s">>, <<"i", "r">>, <<"w", "e", "b", "m", "a", "s", "t", "e", "r">>, <<"n", "e", "w", "s", "l", "e", "t", "t", "e", "r">>, <<"a", "p", "p", "l", "y">>,
      <<"p", "a", "r", "t", "n", "e", "r">>, <<"p", "a", "r", "t", "n", "e", "r", "s">>, <<"v", "e", "n", "t", "u", "r", "e", "s">> }

DefaultConfidenceThreshold == 4
DefaultGenericConfidenceThreshold == 7
DefaultMaxVerificationAttempts == 2
MaxConfidence == 10

\* validate_config on the two thresholds: clamp to 10, then generic >= base
validate_config(ct, gt) ==
    LET c1 == IF ct > MaxConfidence THEN MaxConfidence ELSE ct
        g1 == IF gt > MaxConfidence THEN MaxConfidence ELSE gt
        g2 == IF g1 < c1 THEN c1 ELSE g1
    IN  [confidence_threshold |-> c1, generic_confidence_threshold |-> g2]

\* EmailSleuth::is_generic_prefix
is_generic_prefix(email) == to_lowercase(SplitAt0(email)) \in generic_email_prefixes

(* ------------------------------------------------------------------ *)
(* dns.rs: resolve_mail_server over a stubbed resolver                 *)
(*   dns.mx : [kind |-> "records", records |-> <<[preference, exchange]>>] *)
(*          | [kind |-> "error", error |-> substrings of {:?} of kind] *)
(*   dns.ip : [kind |-> "addrs", addrs |-> <<ip, ...>>] | error        *)
(* ------------------------------------------------------------------ *)
\* trim_end_matches('.')
RECURSIVE TrimEndDots(_)
TrimEndDots(s) ==
    IF s # << >> /\ s[Len(s)] = "." THEN TrimEndDots(SubSeq(s, 1, Len(s) - 1))
    ELSE s

U16Max == 65535

resolve_a_record_fallback(dns) ==
    IF dns.ip.kind = "addrs"
    THEN IF dns.ip.addrs # << >>
         THEN [ok |-> TRUE, exchange |-> dns.ip.addrs[1], preference |-> U16Max,
               fallback |-> TRUE]
         ELSE [ok |-> FALSE, error |-> "NoDnsRecords", fallback |-> TRUE]
    ELSE IF "NoRecordsFound" \in dns.ip.error
         THEN [ok |-> FALSE, error |-> "NoDnsRecords", fallback |-> TRUE]
    ELSE IF "NXDomain" \in dns.ip.error \/ "Name does not exist" \in dns.ip.error
         THEN [ok |-> FALSE, error |-> "NxDomain", fallback |-> TRUE]
    ELSE IF "Timeout" \in dns.ip.error
         THEN [ok |-> FALSE, error |-> "DnsTimeout", fallback |-> TRUE]
    ELSE [ok |-> FALSE, error |-> "Dns", fallback |-> TRUE]

\* sort_by_key(preference) is stable: the first record of minimum preference
BestMx(records) ==
    LET m == Min({records[i].preference : i \in 1..Len(records)})
        i == Min({j \in 1..Len(records) : records[j].preference = m})
    IN  records[i]

resolve_mail_server(dns) ==
    IF dns.mx.kind = "records"
    THEN IF dns.mx.records = << >> THEN resolve_a_record_fallback(dns)
         ELSE LET best == BestMx(dns.mx.records)
                  exchange == TrimEndDots(best.exchange)
              IN  IF exchange = << >>
                  THEN [ok |-> FALSE, error |-> "NoDnsRecords", fallback |-> FALSE]
                  ELSE [ok |-> TRUE, exchange |-> exchange,
                        preference |-> best.preference, fallback |-> FALSE]
    ELSE IF "NoRecordsFound" \in dns.mx.error THEN resolve_a_record_fallback(dns)
    ELSE IF "NXDomain" \in dns.mx.error \/ "Name does not exist" \in dns.mx.error
         THEN [ok |-> FALSE, error |-> "NxDomain", fallback |-> FALSE]
    ELSE IF "Timeout" \in dns.mx.error
         THEN [ok |-> FALSE, error |-> "DnsTimeout", fallback |-> FALSE]
    ELSE [ok |-> FALSE, error |-> "Dns", fallback |-> FALSE]

(* ------------------------------------------------------------------ *)
(* models.rs: SmtpVerificationResult constructors                      *)
(* exists is "true", "false" or "none" (Option<bool>)                  *)
(* ------------------------------------------------------------------ *)
conclusive(exists, message, is_catch_all) ==
    [exists |-> IF exists THEN "true" ELSE "false", message |-> message,
     should_retry |-> FALSE, is_catch_all |-> is_catch_all]

inconclusive_retry(message) ==
    [exists |-> "none", message |-> message, should_retry |-> TRUE,
     is_catch_all |-> FALSE]

inconclusive_no_retry(message) ==
    [exists |-> "none", message |-> message, should_retry |-> FALSE,
     is_catch_all |-> FALSE]

(* ------------------------------------------------------------------ *)
(* smtp.rs: the prober over a stubbed conversation.                    *)
(* A command's outcome is [ok |-> TRUE, code |-> n, text |-> phrases]  *)
(* or [ok |-> FALSE, text |-> the substrings the error text contains]. *)
(* Messages are kept by their fixed prefix.                            *)
(* ------------------------------------------------------------------ *)
UserUnknownPhrases ==
    {"does not exist", "no such user", "user unknown", "recipient not found",
     "NoSuchUser"}

handle_smtp_error(text) ==
    IF "550" \in text /\ (text \cap UserUnknownPhrases) # {}
    THEN conclusive(FALSE, "SMTP Rejected (User Does Not Exist)", FALSE)
    ELSE IF "4" \in text /\ ("temporary" \in text \/ "transient" \in text)
    THEN inconclusive_retry("SMTP Transient Error")
    ELSE IF "5" \in text /\ "permanent" \in text
    THEN inconclusive_no_retry("SMTP Permanent Error")
    ELSE IF "connection refused" \in text
    THEN inconclusive_no_retry("Connection refused by server")
    ELSE IF "connection reset" \in text
    THEN inconclusive_retry("Connection reset by server")
    ELSE IF "timed out" \in text
    THEN inconclusive_retry("SMTP connection/operation timed out")
    ELSE IF "TLS" \in text \/ "tls" \in text
    THEN inconclusive_retry("SMTP TLS Error")
    ELSE inconclusive_retry("Unhandled SMTP Error")

\* Severity of a reply code: its first digit
Severity(code) == code \div 100

RejectionPhrases ==
    {"unknown", "no such", "unavailable", "rejected", "doesn't exist",
     "disabled", "invalid address", "recipient not found", "user unknown",
     "mailbox unavailable"}

\* variant: the catch-all flag is not consulted
final_result_ignoring_catch_all(target, is_catch_all) ==
    IF Severity(target.code) = 2
    THEN conclusive(TRUE, "SMTP Verification OK", FALSE)
    ELSE IF Severity(target.code) = 3
    THEN inconclusive_retry("SMTP Unexpected Intermediate Code")
    ELSE IF Severity(target.code) = 4
    THEN inconclusive_retry("SMTP Temp Failure/Greylisted? (4xx)")
    ELSE conclusive(FALSE, "SMTP Rejected (User Likely Unknown)", FALSE)

\* variant: a 5xx other than the listed codes and phrases is left open
final_result_policy_inconclusive(target, is_catch_all) ==
    IF Severity(target.code) = 2
    THEN IF is_catch_all
         THEN inconclusive_retry("SMTP accepted (Possible Catch-All)")
         ELSE conclusive(TRUE, "SMTP Verification OK", FALSE)
    ELSE IF Severity(target.code) = 3
    THEN inconclusive_retry("SMTP Unexpected Intermediate Code")
    ELSE IF Severity(target.code) = 4
    THEN inconclusive_retry("SMTP Temp Failure/Greylisted? (4xx)")
    ELSE IF target.code \in {550, 551, 553} \/ (target.text \cap RejectionPhrases) # {}
    THEN conclusive(FALSE, "SMTP Rejected (User Likely Unknown)", FALSE)
    ELSE inconclusive_no_retry("SMTP Rejected (Policy/Other 5xx)")

\* lines 201-265: the result from the target response and the catch-all flag
final_result(target, is_catch_all) ==
    IF Severity(target.code) = 2
    THEN IF is_catch_all
         THEN inconclusive_retry("SMTP accepted (Possible Catch-All)")
         ELSE conclusive(TRUE, "SMTP Verification OK", FALSE)
    ELSE IF Severity(target.code) = 3
    THEN inconclusive_retry("SMTP Unexpected Intermediate Code")
    ELSE IF Severity(target.code) = 4
    THEN inconclusive_retry("SMTP Temp Failure/Greylisted? (4xx)")
    ELSE IF target.code \in {550, 551, 553} \/ (target.text \cap RejectionPhrases) # {}
    THEN conclusive(FALSE, "SMTP Rejected (User Likely Unknown)", FALSE)
    ELSE conclusive(FALSE, "SMTP Rejected (Policy/Other 5xx)", FALSE)

\* lettre Address::from_str: one '@' with text on both sides
AddressFromStrOk(email) ==
    /\ Cardinality(AtPositions(email)) = 1
    /\ SplitAt0(email) # << >>
    /\ SplitAt1(email) # << >>

\* verify_smtp_email: [err |-> TRUE] is the Err(..) return, otherwise
\* [err |-> FALSE, result |-> SmtpVerificationResult]
Probed(r) == [err |-> FALSE, result |-> r]

verify_smtp_email(email, conv) ==
    IF ~AddressFromStrOk(email)
    THEN Probed(conclusive(FALSE, "Invalid email format", FALSE))
    ELSE IF ~conv.sender_ok THEN [err |-> TRUE]
    ELSE IF conv.resolve = "err" THEN [err |-> TRUE]
    ELSE IF conv.resolve = "none"
    THEN Probed(inconclusive_no_retry("Could not resolve mail server address"))
    ELSE IF ~conv.connect.ok
    THEN IF "timed out" \in conv.connect.text \/ "connection refused" \in conv.connect.text
         THEN Probed(inconclusive_no_retry("Port 25 is likely blocked by your ISP"))
         ELSE Probed(handle_smtp_error(conv.connect.text))
    ELSE IF ~conv.ehlo.ok THEN Probed(handle_smtp_error(conv.ehlo.text))
    ELSE IF ~conv.mail.ok THEN Probed(handle_smtp_error(conv.mail.text))
    ELSE IF Severity(conv.mail.code) \notin {2, 3}
    THEN Probed(inconclusive_no_retry("MAIL FROM rejected"))
    ELSE IF ~conv.rcpt.ok THEN Probed(handle_smtp_error(conv.rcpt.text))
    ELSE LET is_catch_all ==
                 /\ Severity(conv.rcpt.code) = 2
                 /\ conv.random.ok
                 /\ Severity(conv.random.code) = 2
         IN  Probed(final_result(conv.rcpt, is_catch_all))

max_verification_attempts == DefaultMaxVerificationAttempts

\* verify_email_smtp_with_retries: convs[k] is the conversation the k-th
\* attempt meets; the result is <<last_result, last_message>>
RECURSIVE retry_loop(_, _, _, _, _)
retry_loop(email, convs, attempt, last_result, last_message) ==
    IF attempt >= max_verification_attempts
    THEN [exists |-> last_result, message |-> last_message, attempts |-> attempt]
    ELSE LET r == verify_smtp_email(email, convs[attempt + 1])
         IN  IF r.err
             THEN retry_loop(email, convs, attempt + 1,
                     IF attempt >= max_verification_attempts - 1 THEN "none"
                     ELSE last_result,
                     "Internal error during SMTP check")
             ELSE IF r.result.exists # "none" \/ ~r.result.should_retry
             THEN [exists |-> r.result.exists, message |-> r.result.message,
                   attempts |-> attempt + 1]
             ELSE retry_loop(email, convs, attempt + 1, r.result.exists,
                     r.result.message)

verify_email_smtp_with_retries(email, convs) ==
    retry_loop(email, convs, 0, "none", "SMTP check did not run or complete")

(* ------------------------------------------------------------------ *)
(* scraper.rs: the list scrape_website_for_emails returns, given the   *)
(* lowercased addresses its pages inserted into `found_emails`         *)
(* ------------------------------------------------------------------ *)
\* email.rsplit_once('@') is Some and the part after the last '@' is valid
DomainPartValid(email) ==
    /\ AtPositions(email) # {}
    /\ LET domain_part == SubSeq(email, Max(AtPositions(email)) + 1, Len(email))
       IN  ContainsChar(domain_part, ".") /\ Len(domain_part) > 3

scrape_website_for_emails(inserted, seed) ==
    SelectSeq(HashSetIter(inserted, seed), DomainPartValid)

(* ------------------------------------------------------------------ *)
(* sleuth.rs: scoring, ordering and selection of find_email            *)
(* ------------------------------------------------------------------ *)
\* lines 93-124: the four passes of add_candidate
RECURSIVE AddAll(_, _)
AddAll(list, emails) ==
    IF emails = << >> THEN list
    ELSE LET e == to_lowercase(Head(emails))
         IN  AddAll(IF Head(emails) # << >> /\ ~InSeq(e, list)
                    THEN Append(list, e) ELSE list,
                    Tail(emails))

\* variant: all patterns are added before the scraped addresses
merge_candidates_patterns_first(patterns, scraped, first_lower, last_lower) ==
    LET Named(e) == Contains(e, first_lower) \/ Contains(e, last_lower)
        Unnamed(e) == ~Named(e)
        l1 == AddAll(<< >>, SelectSeq(patterns, Named))
        l2 == AddAll(l1, SelectSeq(patterns, Unnamed))
        l3 == AddAll(l2, SelectSeq(scraped, Named))
    IN  AddAll(l3, SelectSeq(scraped, Unnamed))

merge_candidates(patterns, scraped, first_lower, last_lower) ==
    LET Named(e) == Contains(e, first_lower) \/ Contains(e, last_lower)
        Unnamed(e) == ~Named(e)
        l1 == AddAll(<< >>, SelectSeq(patterns, Named))
        l2 == AddAll(l1, SelectSeq(scraped, Named))
        l3 == AddAll(l2, SelectSeq(scraped, Unnamed))
    IN  AddAll(l3, SelectSeq(patterns, Unnamed))

\* lines 173: the admission rule
admitted(matches_primary_domain, is_scraped, is_generic) ==
    ~(~matches_primary_domain /\ ~(is_scraped /\ is_generic))

\* lines 184-198
base_confidence(is_pattern, is_scraped, name_in_email, matches_primary_domain) ==
      (IF is_pattern /\ name_in_email THEN 3 ELSE 0)
    + (IF is_scraped /\ name_in_email THEN 5 ELSE 0)
    + (IF is_scraped /\ ~name_in_email THEN 2 ELSE 0)
    + (IF is_pattern /\ ~name_in_email THEN 1 ELSE 0)
    + (IF matches_primary_domain THEN 1 ELSE 0)

MaxOf(a, b) == IF a >= b THEN a ELSE b
MinOf(a, b) == IF a <= b THEN a ELSE b

\* variant: the penalty for a generic address with the name is 4
generic_penalty_of_four(confidence, is_generic, name_in_email) ==
    IF is_generic /\ name_in_email /\ confidence > 1
    THEN MaxOf(1, confidence - 4)
    ELSE IF is_generic /\ ~name_in_email /\ confidence > 2
    THEN MaxOf(1, confidence - 2)
    ELSE confidence

\* variant: the name penalty applied to every address, generic or not
generic_penalty_all(confidence, is_generic, name_in_email) ==
    IF name_in_email /\ confidence > 1
    THEN MaxOf(1, confidence - 5)
    ELSE IF is_generic /\ ~name_in_email /\ confidence > 2
    THEN MaxOf(1, confidence - 2)
    ELSE confidence

\* lines 205-219
generic_penalty(confidence, is_generic, name_in_email) ==
    IF is_generic /\ name_in_email /\ confidence > 1
    THEN MaxOf(1, confidence - 5)
    ELSE IF is_generic /\ ~name_in_email /\ confidence > 2
    THEN MaxOf(1, confidence - 2)
    ELSE confidence

\* variant: the gate opens at confidence 2
should_verify_from_two(has_mail_server, confidence, is_scraped, name_in_email) ==
    has_mail_server /\ (confidence >= 2 \/ (is_scraped /\ name_in_email /\ confidence > 1))

\* variant: the gate without the mail-server condition
should_verify_without_server(has_mail_server, confidence, is_scraped, name_in_email) ==
    confidence >= 3 \/ (is_scraped /\ name_in_email /\ confidence > 1)

\* lines 221-222
should_verify_smtp(has_mail_server, confidence, is_scraped, name_in_email) ==
    has_mail_server /\ (confidence >= 3 \/ (is_scraped /\ name_in_email /\ confidence > 1))

\* variant: a rejection leaves the confidence as it was
smtp_adjust_keep_rejected(confidence, exists) ==
    IF exists = "true" THEN confidence + 5
    ELSE IF exists = "false" THEN confidence
    ELSE confidence + 1

\* lines 256-272
smtp_adjust(confidence, exists) ==
    IF exists = "true" THEN confidence + 5
    ELSE IF exists = "false" THEN 0
    ELSE confidence + 1

\* variant: only the lower clamp
final_confidence_no_upper(confidence) == MaxOf(0, confidence)

\* line 286
final_confidence(confidence) == MaxOf(0, MinOf(MaxConfidence, confidence))

\* String::cmp on lowercase ASCII words: -1 less, 0 equal, 1 greater
ByteOf(c) == 96 + (CHOOSE i \in 1..26 : LowerSeq[i] = c)

RECURSIVE StrCmp(_, _)
StrCmp(a, b) ==
    IF a = << >> /\ b = << >> THEN 0
    ELSE IF a = << >> THEN -1
    ELSE IF b = << >> THEN 1
    ELSE IF ByteOf(Head(a)) < ByteOf(Head(b)) THEN -1
    ELSE IF ByteOf(Head(a)) > ByteOf(Head(b)) THEN 1
    ELSE StrCmp(Tail(a), Tail(b))

IntCmp(a, b) == IF a < b THEN -1 ELSE IF a > b THEN 1 ELSE 0
BoolCmp(a, b) == IF a = b THEN 0 ELSE IF ~a THEN -1 ELSE 1

SourceScraped == <<"s", "c", "r", "a", "p", "e", "d">>
SourcePattern == <<"p", "a", "t", "t", "e", "r", "n">>

\* variant: the source compared ascending
compare_found_source_asc(a, b) ==
    IF IntCmp(b.confidence, a.confidence) # 0 THEN IntCmp(b.confidence, a.confidence)
    ELSE IF BoolCmp(a.is_generic, b.is_generic) # 0 THEN BoolCmp(a.is_generic, b.is_generic)
    ELSE StrCmp(a.source, b.source)

\* lines 321-326: the comparator of the sort
compare_found(a, b) ==
    IF IntCmp(b.confidence, a.confidence) # 0 THEN IntCmp(b.confidence, a.confidence)
    ELSE IF BoolCmp(a.is_generic, b.is_generic) # 0 THEN BoolCmp(a.is_generic, b.is_generic)
    ELSE StrCmp(b.source, a.source)

\* Vec::sort_by is stable: an element goes behind every element not greater
InsertSorted(sorted, x) ==
    LET k == Cardinality({i \in 1..Len(sorted) : compare_found(sorted[i], x) <= 0})
    IN  SubSeq(sorted, 1, k) \o <<x>> \o SubSeq(sorted, k + 1, Len(sorted))

RECURSIVE sort_found(_)
sort_found(s) ==
    IF s = << >> THEN << >>
    ELSE InsertSorted(sort_found(SubSeq(s, 1, Len(s) - 1)), s[Len(s)])

NoEmail == << >>

\* variant: the score of the top entry is reported for the best non-generic
select_with_top_score(found, cfg) ==
    LET good == {i \in 1..Len(found) :
                    ~found[i].is_generic /\ found[i].confidence >= cfg.confidence_threshold}
    IN  IF good # {}
        THEN [most_likely_email |-> found[Min(good)].email,
              confidence_score |-> found[1].confidence]
        ELSE IF found # << >>
                /\ found[1].confidence >= cfg.confidence_threshold
                /\ (~found[1].is_generic
                    \/ found[1].confidence >= cfg.generic_confidence_threshold)
        THEN [most_likely_email |-> found[1].email,
              confidence_score |-> found[1].confidence]
        ELSE [most_likely_email |-> NoEmail, confidence_score |-> 0]

\* variant: the top entry is taken at confidence_threshold, generic or not
select_without_generic_threshold(found, cfg) ==
    LET good == {i \in 1..Len(found) :
                    ~found[i].is_generic /\ found[i].confidence >= cfg.confidence_threshold}
    IN  IF good # {}
        THEN [most_likely_email |-> found[Min(good)].email,
              confidence_score |-> found[Min(good)].confidence]
        ELSE IF found # << >>
                /\ found[1].confidence >= cfg.confidence_threshold
        THEN [most_likely_email |-> found[1].email,
              confidence_score |-> found[1].confidence]
        ELSE [most_likely_email |-> NoEmail, confidence_score |-> 0]

\* variant: only the top entry is considered
select_top_only(found, cfg) ==
    IF found # << >>
       /\ found[1].confidence >= cfg.confidence_threshold
       /\ (~found[1].is_generic
           \/ found[1].confidence >= cfg.generic_confidence_threshold)
    THEN [most_likely_email |-> found[1].email,
          confidence_score |-> found[1].confidence]
    ELSE [most_likely_email |-> NoEmail, confidence_score |-> 0]

\* lines 332-379: <<most_likely_email, confidence_score>>
select_most_likely(found, cfg) ==
    LET good == {i \in 1..Len(found) :
                    ~found[i].is_generic /\ found[i].confidence >= cfg.confidence_threshold}
    IN  IF good # {}
        THEN [most_likely_email |-> found[Min(good)].email,
              confidence_score |-> found[Min(good)].confidence]
        ELSE IF found # << >>
                /\ found[1].confidence >= cfg.confidence_threshold
                /\ (~found[1].is_generic
                    \/ found[1].confidence >= cfg.generic_confidence_threshold)
        THEN [most_likely_email |-> found[1].email,
              confidence_score |-> found[1].confidence]
        ELSE [most_likely_email |-> NoEmail, confidence_score |-> 0]

\* HashMap::insert
MapInsert(m, k, v) == [x \in (DOMAIN m) \cup {k} |-> IF x = k THEN v ELSE m[x]]
EmptyMap == [x \in {} |-> ""]

\* Vec push of a method name not yet listed / unconditional push
PushMethod(methods, name) == Append(methods, name)

\* variant: the method is pushed at every verification
push_smtp_method_every_time(methods, verify) ==
    IF verify THEN PushMethod(methods, "smtp_verification") ELSE methods

\* lines 231-238: "smtp_verification" is pushed once, at the first verification
push_smtp_method(methods, verify) ==
    IF verify /\ ~InSeq("smtp_verification", methods)
    THEN PushMethod(methods, "smtp_verification")
    ELSE methods

(* ------------------------------------------------------------------ *)
(* The stubbed environment: contacts, pages, DNS answers, mail server  *)
(* ------------------------------------------------------------------ *)
DomExample == <<"e", "x", "a", "m", "p", "l", "e", ".", "c", "o", "m">>
DomNx == <<"n", "x", "d", "o", "m", "a", "i", "n", ".", "t", "e", "s", "t">>
DomCo == <<"c", "o", ".", "t", "e", "s", "t">>

JaneDoe == [first_name |-> <<"J", "a", "n", "e">>, last_name |-> <<"D", "o", "e">>, domain |-> DomExample]
JohnRoe == [first_name |-> <<"J", "o", "h", "n">>, last_name |-> <<"R", "o", "e">>, domain |-> DomNx]
IrMa == [first_name |-> <<"I", "r">>, last_name |-> <<"M", "a">>, domain |-> DomCo]
JoAnLi == [first_name |-> <<"J", "o", " ", "A", "n">>, last_name |-> <<"L", "i">>, domain |-> DomCo]
\* a host name without a dot: no pattern passes generate_email_patterns
DomIntranet == <<"i", "n", "t", "r", "a", "n", "e", "t">>
AlNg == [first_name |-> <<"A", "l">>, last_name |-> <<"N", "g">>, domain |-> DomIntranet]

\* addresses the website's pages may publish, per contact
PagePool(c) ==
    IF c = JaneDoe
    THEN << <<"c", "o", "n", "t", "a", "c", "t", "@", "e", "x", "a", "m", "p", "l", "e", ".", "c", "o", "m">>, <<"j", "a", "n", "e", ".", "d", "o", "e", "@", "e", "x", "a", "m", "p", "l", "e", ".", "c", "o", "m">>, <<"i", "n", "f", "o", "@", "o", "t", "h", "e", "r", ".", "o", "r", "g">> >>
    ELSE IF c = IrMa
    THEN << <<"i", "r", "@", "c", "o", ".", "t", "e", "s", "t">>, <<"m", "a", "i", "l", "@", "c", "o", ".", "t", "e", "s", "t">>, <<"b", "o", "b", "@", "c", "o", ".", "t", "e", "s", "t">>, <<"i", "n", "f", "o", "@", "o", "t", "h", "e", "r", ".", "o", "r", "g">> >>
    ELSE IF c = JoAnLi
    THEN << <<"j", "o", "a", "n", "@", "c", "o", ".", "t", "e", "s", "t">>, <<"s", "a", "l", "e", "s", "@", "c", "o", ".", "t", "e", "s", "t">>, <<"l", "i", "s", "a", "@", "c", "o", ".", "t", "e", "s", "t">> >>
    ELSE IF c = AlNg
    THEN << <<"i", "n", "f", "o", "@", "o", "t", "h", "e", "r", ".", "o", "r", "g">>, <<"s", "a", "l", "e", "s", "@", "o", "t", "h", "e", "r", ".", "o", "r", "g">> >>
    ELSE << >>

\* at most this many addresses are published at once
MaxScraped == 2

PageSets(c) ==
    LET pool == PagePool(c)
        Pick(I) == SelectSeq(pool, LAMBDA e : \E i \in I : pool[i] = e)
    IN  {Pick(I) : I \in {J \in SUBSET (1..Len(pool)) : Cardinality(J) <= MaxScraped}}

\* mailboxes the stub mail server may know, per contact
MailboxPool(c) ==
    IF c = JaneDoe THEN { <<"j", "a", "n", "e", ".", "d", "o", "e", "@", "e", "x", "a", "m", "p", "l", "e", ".", "c", "o", "m">> }
    ELSE IF c = IrMa THEN { <<"i", "r", "@", "c", "o", ".", "t", "e", "s", "t">>, <<"b", "o", "b", "@", "c", "o", ".", "t", "e", "s", "t">> }
    ELSE IF c = JoAnLi THEN { <<"j", "o", "a", "n", "@", "c", "o", ".", "t", "e", "s", "t">> }
    ELSE {}

AcceptSets(c) == {{}} \cup {{m} : m \in MailboxPool(c)}

DnsMx(exchange) ==
    [mx |-> [kind |-> "records",
             records |-> << [preference |-> 20, exchange |-> <<"a", "l", "t", ".">> \o exchange],
                            [preference |-> 10, exchange |-> exchange \o <<".">>] >>],
     ip |-> [kind |-> "error", error |-> {"NoRecordsFound"}]]
DnsFallback ==
    [mx |-> [kind |-> "error", error |-> {"NoRecordsFound"}],
     ip |-> [kind |-> "addrs", addrs |-> << <<"1", "9", "2", ".", "0", ".", "2", ".", "1">> >>]]
DnsError(e) ==
    [mx |-> [kind |-> "error", error |-> {e}],
     ip |-> [kind |-> "error", error |-> {e}]]

DnsOkStubs == {DnsMx(<<"m", "x", ".", "c", "o", ".", "t", "e", "s", "t">>), DnsFallback}
DnsFailStubs == {DnsError("NXDomain"), DnsError("Timeout"), DnsError("NoRecordsFound")}

OkReply(code, text) == [ok |-> TRUE, code |-> code, text |-> text]
ErrReply(text) == [ok |-> FALSE, text |-> text]

SmtpModes == {"normal", "reject_err", "catch_all", "greylist", "blocked", "bad_sender"}

\* the conversation a probe for `email` meets at the stub mail server
ConvFor(smtp, email) ==
    [sender_ok |-> smtp.mode # "bad_sender",
     resolve |-> "addr",
     connect |-> IF smtp.mode = "blocked" THEN ErrReply({"timed out"})
                 ELSE OkReply(220, {}),
     ehlo |-> OkReply(250, {}),
     mail |-> OkReply(250, {}),
     rcpt |-> IF smtp.mode = "catch_all" THEN OkReply(250, {})
              ELSE IF email \in smtp.accept THEN OkReply(250, {})
              ELSE IF smtp.mode = "greylist" THEN OkReply(451, {})
              ELSE IF smtp.mode = "reject_err"
              THEN ErrReply({"550", "5", "user unknown", "permanent"})
              ELSE OkReply(550, {"user unknown"}),
     random |-> IF smtp.mode = "catch_all" THEN OkReply(250, {})
                ELSE OkReply(550, {"user unknown"})]

\* raw threshold settings before validate_config
RawThresholds == {0, 4, 7, 11}

DefaultConfig ==
    validate_config(DefaultConfidenceThreshold, DefaultGenericConfidenceThreshold)
Configs == {validate_config(c, g) : c \in RawThresholds, g \in RawThresholds}

\* a world: the contact, the configuration and what the stubs answer
World(c, cfg, pages, dns, mode, accept) ==
    [contact |-> c, config |-> cfg, pages |-> pages, dns |-> dns,
     smtp |-> [mode |-> mode, accept |-> accept]]

\* the worlds of one contact over the given settings and stub behaviours
WorldsOf(c, cfgs, dnss, modes, accepts) ==
    {World(c, cfg, pg, dns, m, acc) :
        cfg \in cfgs, pg \in PageSets(c), dns \in dnss, m \in modes, acc \in accepts}

Worlds ==
    \* the end-to-end scenarios, default thresholds
       WorldsOf(JaneDoe, {DefaultConfig}, {DnsMx(<<"m", "a", "i", "l", ".", "e", "x", "a", "m", "p", "l", "e", ".", "c", "o", "m">>)},
                {"normal", "catch_all"}, AcceptSets(JaneDoe))
  \cup WorldsOf(JohnRoe, {DefaultConfig}, DnsFailStubs, {"normal"}, {{}})
    \* small contacts: every validated threshold pair, every stub behaviour
  \cup WorldsOf(IrMa, Configs, {DnsFallback}, {"normal"}, AcceptSets(IrMa))
  \cup WorldsOf(IrMa, {DefaultConfig}, {DnsMx(<<"m", "x", ".", "c", "o", ".", "t", "e", "s", "t">>)}, SmtpModes, {{}})
  \cup WorldsOf(IrMa, {DefaultConfig}, {DnsMx(<<"m", "x", ".", "c", "o", ".", "t", "e", "s", "t">>)}, {"greylist"},
                AcceptSets(IrMa))
  \cup WorldsOf(JoAnLi, {DefaultConfig}, DnsOkStubs \cup DnsFailStubs, {"normal"},
                AcceptSets(JoAnLi))
    \* no patterns at all
  \cup WorldsOf(AlNg, {DefaultConfig}, {DnsFallback}, {"normal"}, {{}})

(* ------------------------------------------------------------------ *)
(* State                                                               *)
(* ------------------------------------------------------------------ *)
VARIABLES
    world,                \* contact, CONFIG thresholds and the stubs' answers
    pc,                   \* position inside find_email
    generated_patterns,   \* Vec<String>
    scraped_emails,       \* Vec<String> after the domain-or-generic filter
    all_candidates,       \* Vec<String>
    mail_server,          \* result of resolve_mail_server
    idx,                  \* index of the next candidate of the loop
    verified_emails_data, \* Vec<FoundEmailData>
    results,              \* EmailResult
    probes,               \* verifier invocations of this run: [email, exists]
    run,                  \* which invocation of find_email this is
    prev,                 \* EmailResult of the previous invocation
    gen_call,             \* generate_email_patterns: arguments and returned Vecs
    smtp_probe,           \* verify_smtp_email: position, replies, commands sent
    smtp_retry,           \* verify_email_smtp_with_retries: loop state
    proc,                 \* process_record: the record and its ProcessingResult
    file_mode,            \* main, file mode: records, tasks and collected results
    dns_call,             \* resolve_mail_server: the resolver's answers and the result
    scrape_call,          \* scrape_website_for_emails: queue, visited set, requests
    gate_call             \* find_email's scoring of one candidate, step by step

find_vars == <<world, pc, generated_patterns, scraped_emails, all_candidates,
               mail_server, idx, verified_emails_data, results, probes, run, prev>>
more_vars == <<dns_call, scrape_call, gate_call>>
other_vars == <<gen_call, smtp_probe, smtp_retry, proc, file_mode, more_vars>>
vars == <<find_vars, other_vars>>

\* A component that is not called in the specification at hand.
NotCalled == [pc |-> "not_called"]

OthersNotCalled ==
    /\ dns_call = NotCalled
    /\ scrape_call = NotCalled
    /\ gate_call = NotCalled

EmailResultDefault ==
    [found_emails |-> << >>, most_likely_email |-> NoEmail, confidence_score |-> 0,
     methods_used |-> << >>, verification_log |-> EmptyMap]

NoMailServer == [ok |-> FALSE, error |-> "unresolved", fallback |-> FALSE]

Init ==
    /\ OthersNotCalled
    /\ world \in Worlds
    /\ pc = "patterns"
    /\ generated_patterns = << >>
    /\ scraped_emails = << >>
    /\ all_candidates = << >>
    /\ mail_server = NoMailServer
    /\ idx = 1
    /\ verified_emails_data = << >>
    /\ results = EmailResultDefault
    /\ probes = << >>
    /\ run = 1
    /\ prev = EmailResultDefault
    /\ gen_call = NotCalled
    /\ smtp_probe = NotCalled
    /\ smtp_retry = NotCalled
    /\ proc = NotCalled
    /\ file_mode = NotCalled

contact == world.contact
first_lower == to_lowercase(contact.first_name)
last_lower == to_lowercase(contact.last_name)

(* ------------------------------------------------------------------ *)
(* find_email, lines 61-70: pattern generation                         *)
(* ------------------------------------------------------------------ *)
GeneratePatterns ==
    /\ pc = "patterns"
    /\ \E seed \in HashSeeds :
         LET pats == generate_email_patterns(contact.first_name, contact.last_name,
                                             contact.domain, seed)
         IN  /\ generated_patterns' = pats
             /\ results' = [results EXCEPT !.methods_used =
                               IF pats # << >> THEN PushMethod(@, "pattern_generation")
                               ELSE @]
    /\ pc' = "scrape"
    /\ UNCHANGED <<world, scraped_emails, all_candidates, mail_server, idx,
                   verified_emails_data, probes, run, prev>>
    /\ UNCHANGED other_vars

(* ------------------------------------------------------------------ *)
(* find_email, lines 72-130: scraping, filter and candidate merge      *)
(* ------------------------------------------------------------------ *)
RelevantScraped(email) ==
    EndsWith(email, <<"@">> \o contact.domain) \/ is_generic_prefix(email)

ScrapeAndMerge ==
    /\ pc = "scrape"
    /\ \E seed \in HashSeeds :
         LET raw == scrape_website_for_emails(world.pages, seed)
             scraped == SelectSeq(raw, RelevantScraped)
         IN  /\ scraped_emails' = scraped
             /\ results' = [results EXCEPT !.methods_used =
                               IF scraped # << >> THEN PushMethod(@, "website_scraping")
                               ELSE @]
             /\ all_candidates' = merge_candidates(generated_patterns, scraped,
                                                   first_lower, last_lower)
    /\ pc' = "resolve"
    /\ UNCHANGED <<world, generated_patterns, mail_server, idx,
                   verified_emails_data, probes, run, prev>>
    /\ UNCHANGED other_vars

(* ------------------------------------------------------------------ *)
(* find_email, lines 132-150: mail server lookup                       *)
(* ------------------------------------------------------------------ *)
ResolveMailServer ==
    /\ pc = "resolve"
    /\ LET ms == resolve_mail_server(world.dns)
       IN  /\ mail_server' = ms
           /\ results' = IF ms.ok THEN results
                         ELSE [results EXCEPT !.verification_log =
                                  MapInsert(@, contact.domain, "DNS resolution failed")]
    /\ verified_emails_data' = << >>
    /\ idx' = 1
    /\ pc' = "assess"
    /\ UNCHANGED <<world, generated_patterns, scraped_emails, all_candidates,
                   probes, run, prev>>
    /\ UNCHANGED other_vars

(* ------------------------------------------------------------------ *)
(* find_email, lines 153-317: one iteration of the candidate loop      *)
(* ------------------------------------------------------------------ *)
\* the features of a candidate, lines 164-182
Features(email) ==
    LET email_local_part == to_lowercase(SplitAt0(email))
        email_domain_part == to_lowercase(SplitAt1(email))
    IN  [is_scraped |-> InSeq(email, scraped_emails),
         is_pattern |-> InSeq(email, generated_patterns),
         is_generic |-> is_generic_prefix(email),
         matches_primary_domain |-> email_domain_part = contact.domain,
         name_in_email |-> \/ Contains(email_local_part, first_lower)
                           \/ Contains(email_local_part, last_lower)]

\* the confidence before the SMTP gate, lines 184-219
penalised_confidence(f) ==
    generic_penalty(
        base_confidence(f.is_pattern, f.is_scraped, f.name_in_email,
                        f.matches_primary_domain),
        f.is_generic, f.name_in_email)

\* candidates the loop passes over with `continue`, lines 154-179
Skipped(email) ==
    \/ ~email_regex_is_match(email)
    \/ LET f == Features(email)
       IN  ~admitted(f.matches_primary_domain, f.is_scraped, f.is_generic)

AssessCandidate ==
    /\ pc = "assess"
    /\ idx <= Len(all_candidates)
    /\ LET email == all_candidates[idx]
       IN  IF Skipped(email)
           THEN UNCHANGED <<verified_emails_data, results, probes>>
           ELSE
             LET f == Features(email)
                 confidence == penalised_confidence(f)
                 verify == should_verify_smtp(mail_server.ok, confidence,
                                              f.is_scraped, f.name_in_email)
                 convs == [k \in 1..max_verification_attempts |->
                              ConvFor(world.smtp, email)]
                 v == verify_email_smtp_with_retries(email, convs)
                 verification_status == IF verify THEN v.exists ELSE "none"
                 verification_message ==
                     IF verify THEN v.message
                     ELSE IF ~mail_server.ok
                     THEN "Verification skipped (DNS lookup failed)"
                     ELSE "Verification skipped (low initial confidence)"
                 adjusted == IF verify THEN smtp_adjust(confidence, v.exists)
                             ELSE confidence
                 final == final_confidence(adjusted)
                 methods == push_smtp_method(results.methods_used, verify)
             IN  /\ results' = [results EXCEPT
                        !.methods_used = methods,
                        !.verification_log = MapInsert(@, email, verification_message)]
                 /\ probes' = IF verify
                              THEN Append(probes, [email |-> email, exists |-> v.exists])
                              ELSE probes
                 /\ verified_emails_data' =
                        IF final > 0
                        THEN Append(verified_emails_data,
                                [email |-> email,
                                 confidence |-> final,
                                 source |-> IF f.is_scraped THEN SourceScraped
                                            ELSE SourcePattern,
                                 is_generic |-> f.is_generic,
                                 verification_status |-> verification_status,
                                 verification_message |-> verification_message])
                        ELSE verified_emails_data
    /\ idx' = idx + 1
    /\ UNCHANGED <<world, pc, generated_patterns, scraped_emails, all_candidates,
                   mail_server, run, prev>>
    /\ UNCHANGED other_vars

(* ------------------------------------------------------------------ *)
(* find_email, lines 319-386: sort, select, return Ok(results)         *)
(* ------------------------------------------------------------------ *)
SortAndSelect ==
    /\ pc = "assess"
    /\ idx > Len(all_candidates)
    /\ LET found == sort_found(verified_emails_data)
           sel == select_most_likely(found, world.config)
       IN  results' = [results EXCEPT
                          !.found_emails = found,
                          !.most_likely_email = sel.most_likely_email,
                          !.confidence_score = sel.confidence_score]
    /\ pc' = "done"
    /\ UNCHANGED <<world, generated_patterns, scraped_emails, all_candidates,
                   mail_server, idx, verified_emails_data, probes, run, prev>>
    /\ UNCHANGED other_vars

(* ------------------------------------------------------------------ *)
(* The caller invokes find_email again for the same contact while the  *)
(* stubs keep giving the same answers                                  *)
(* ------------------------------------------------------------------ *)
FindEmailAgain ==
    /\ pc = "done"
    /\ run < MaxRuns
    /\ prev' = results
    /\ run' = run + 1
    /\ pc' = "patterns"
    /\ generated_patterns' = << >>
    /\ scraped_emails' = << >>
    /\ all_candidates' = << >>
    /\ mail_server' = NoMailServer
    /\ idx' = 1
    /\ verified_emails_data' = << >>
    /\ results' = EmailResultDefault
    /\ probes' = << >>
    /\ UNCHANGED world
    /\ UNCHANGED other_vars

Next ==
    \/ GeneratePatterns
    \/ ScrapeAndMerge
    \/ ResolveMailServer
    \/ AssessCandidate
    \/ SortAndSelect
    \/ FindEmailAgain

Spec == Init /\ [][Next]_vars

(* ------------------------------------------------------------------ *)
(* Properties of the returned EmailResult                              *)
(* ------------------------------------------------------------------ *)
Returned == pc = "done"
found_emails == results.found_emails
FoundIdx == 1..Len(found_emails)
MostLikelySet == results.most_likely_email # NoEmail
DnsFailed == ~resolve_mail_server(world.dns).ok

\* C1: every stored entry, during the loop and in the returned found_emails,
\* has a confidence in 1..10 (clamped, and a clamped 0 is not stored)
C1_ConfidenceRange ==
    /\ \A i \in 1..Len(verified_emails_data) :
          verified_emails_data[i].confidence \in 1..10
    /\ \A i \in FoundIdx : found_emails[i].confidence \in 1..10

\* a run where one candidate was clamped down to 10 and another discarded at 0
C1_Witness ==
    /\ Returned
    /\ \E i \in FoundIdx :
          /\ found_emails[i].confidence = 10
          /\ found_emails[i].verification_status = "true"
          /\ InSeq(found_emails[i].email, scraped_emails)
          /\ InSeq(found_emails[i].email, generated_patterns)
    /\ \E j \in 1..Len(probes) :
          /\ probes[j].exists = "false"
          /\ \A i \in FoundIdx : found_emails[i].email # probes[j].email

\* C2: most_likely_email, if set, is the email of a found_emails entry whose
\* confidence is confidence_score; if not set, confidence_score is 0
C2_MostLikelyConsistent ==
    Returned =>
        IF MostLikelySet
        THEN \E i \in FoundIdx :
                /\ found_emails[i].email = results.most_likely_email
                /\ found_emails[i].confidence = results.confidence_score
        ELSE results.confidence_score = 0

\* a selection that is not the top entry and scores less than the top entry
C2_Witness ==
    /\ Returned
    /\ MostLikelySet
    /\ found_emails[1].email # results.most_likely_email
    /\ found_emails[1].confidence > results.confidence_score

\* C3: a generic most_likely_email has confidence >= generic_confidence_threshold
C3_GenericAboveThreshold ==
    Returned /\ MostLikelySet /\ is_generic_prefix(results.most_likely_email)
        => \A i \in FoundIdx :
              found_emails[i].email = results.most_likely_email
                 => found_emails[i].confidence
                        >= world.config.generic_confidence_threshold

\* a generic address was selected under thresholds with generic > base
C3_Witness ==
    /\ Returned
    /\ MostLikelySet
    /\ is_generic_prefix(results.most_likely_email)
    /\ world.config.generic_confidence_threshold > world.config.confidence_threshold

Qualifies(i) ==
    /\ ~found_emails[i].is_generic
    /\ found_emails[i].confidence >= world.config.confidence_threshold

\* C4: the first non-generic entry at or above confidence_threshold is
\* selected if there is one; otherwise the top entry iff it reaches
\* confidence_threshold and is non-generic or reaches the generic threshold;
\* otherwise nothing is selected
C4_SelectionRule ==
    Returned =>
        IF \E i \in FoundIdx : Qualifies(i)
        THEN \E i \in FoundIdx :
                /\ Qualifies(i)
                /\ \A j \in 1..(i - 1) : ~Qualifies(j)
                /\ results.most_likely_email = found_emails[i].email
        ELSE IF /\ found_emails # << >>
                /\ found_emails[1].confidence >= world.config.confidence_threshold
                /\ \/ ~found_emails[1].is_generic
                   \/ found_emails[1].confidence
                          >= world.config.generic_confidence_threshold
        THEN results.most_likely_email = found_emails[1].email
        ELSE results.most_likely_email = NoEmail

\* a non-generic entry was selected although a generic one with a higher
\* confidence ranks above it
C4_Witness ==
    /\ Returned
    /\ MostLikelySet
    /\ found_emails[1].is_generic
    /\ ~is_generic_prefix(results.most_likely_email)
    /\ found_emails[1].confidence > results.confidence_score

\* entry a may stand before entry b under
\* (confidence desc, is_generic asc, scraped before pattern)
NotRankedLower(a, b) ==
    \/ a.confidence > b.confidence
    \/ /\ a.confidence = b.confidence
       /\ \/ (~a.is_generic /\ b.is_generic)
          \/ /\ a.is_generic = b.is_generic
             /\ ~(a.source = SourcePattern /\ b.source = SourceScraped)

\* C5: consecutive entries of found_emails are in rank order
C5_Sorted ==
    Returned =>
        \A i \in 1..(Len(found_emails) - 1) :
            NotRankedLower(found_emails[i], found_emails[i + 1])

\* the sort moved a scraped entry in front of a pattern entry it ties with
\* on confidence and is_generic, and a non-generic entry in front of a
\* generic one
C5_Witness ==
    /\ Returned
    /\ verified_emails_data # found_emails
    /\ \E i \in 1..(Len(found_emails) - 1) :
          /\ found_emails[i].confidence = found_emails[i + 1].confidence
          /\ found_emails[i].is_generic = found_emails[i + 1].is_generic
          /\ found_emails[i].source = SourceScraped
          /\ found_emails[i + 1].source = SourcePattern

\* C6: a candidate the verifier rejected is not stored, not selected, and
\* no stored entry has verification_status rejected
C6_RejectedDiscarded ==
    /\ \A j \in 1..Len(probes) :
          probes[j].exists = "false" =>
             /\ \A i \in 1..Len(verified_emails_data) :
                   verified_emails_data[i].email # probes[j].email
             /\ \A i \in FoundIdx : found_emails[i].email # probes[j].email
             /\ results.most_likely_email # probes[j].email
    /\ \A i \in 1..Len(verified_emails_data) :
          verified_emails_data[i].verification_status # "false"
    /\ \A i \in FoundIdx : found_emails[i].verification_status # "false"

\* a scraped, name-bearing pattern (base confidence 9) was rejected while
\* another candidate was kept
C6_Witness ==
    /\ Returned
    /\ found_emails # << >>
    /\ \E j \in 1..Len(probes) :
          /\ probes[j].exists = "false"
          /\ InSeq(probes[j].email, scraped_emails)
          /\ InSeq(probes[j].email, generated_patterns)

(* ------------------------------------------------------------------ *)
(* End-to-end scenarios                                                *)
(* ------------------------------------------------------------------ *)
\* S3: John Roe at nxdomain.test, the MX query answers NXDOMAIN, thresholds 4 and 7
ScenarioS3 ==
    /\ world.contact = JohnRoe
    /\ world.dns = DnsError("NXDomain")
    /\ world.config = DefaultConfig

AllUnknown == \A i \in FoundIdx : found_emails[i].verification_status = "none"

\* C7 as stated: in S3 nothing is selected while the pattern candidates are
\* listed with verification_status unknown
C7_NxDomainNoSelection ==
    Returned /\ ScenarioS3 =>
        /\ ~MostLikelySet
        /\ found_emails # << >>
        /\ AllUnknown

\* C7 as amended: in S3 the pattern candidates are listed with status unknown
\* and confidence 4, and the first of them is selected with confidence_score 4
C7_NxDomainSelectsTopPattern ==
    Returned /\ ScenarioS3 =>
        /\ found_emails # << >>
        /\ AllUnknown
        /\ \A i \in FoundIdx :
              /\ found_emails[i].confidence = 4
              /\ found_emails[i].source = SourcePattern
        /\ results.most_likely_email = found_emails[1].email
        /\ results.confidence_score = 4

C7_Witness ==
    /\ Returned
    /\ ScenarioS3
    /\ Len(found_emails) = Len(generated_patterns)
    /\ contact.domain \in DOMAIN results.verification_log

\* S2: Jane Doe at example.com, MX resolves, no page publishes an address,
\* the server accepts every recipient including the random one
ScenarioS2 ==
    /\ world.contact = JaneDoe
    /\ world.pages = << >>
    /\ world.smtp.mode = "catch_all"
    /\ world.config = DefaultConfig

CatchAllNoted ==
    \E k \in DOMAIN results.verification_log :
        results.verification_log[k] = "SMTP accepted (Possible Catch-All)"

\* C8 as stated: in S2 a selection is made only if the top entry has
\* confidence >= 7, and the log notes the catch-all
C8_CatchAllNeedsSeven ==
    Returned /\ ScenarioS2 =>
        /\ MostLikelySet =>
              found_emails[1].confidence >= DefaultGenericConfidenceThreshold
        /\ CatchAllNoted

\* C8 as amended: in S2 every candidate is probed and stays inconclusive,
\* the top entry is non-generic with confidence 5 and is selected (5 is
\* at least confidence_threshold 4), and the log notes the catch-all
C8_CatchAllSelectsAtFive ==
    Returned /\ ScenarioS2 =>
        /\ found_emails # << >>
        /\ AllUnknown
        /\ ~found_emails[1].is_generic
        /\ found_emails[1].confidence = 5
        /\ results.most_likely_email = found_emails[1].email
        /\ results.confidence_score = 5
        /\ CatchAllNoted

C8_Witness ==
    /\ Returned
    /\ ScenarioS2
    /\ Len(probes) = Len(all_candidates)
    /\ \A j \in 1..Len(probes) : probes[j].exists = "none"

\* C9: when resolve_mail_server fails, find_email still returns; the error is
\* logged under the domain, no probe is issued, every entry is unverified
\* and smtp_verification is not among the methods
C9_DnsFailureDegrades ==
    DnsFailed =>
        /\ probes = << >>
        /\ ~InSeq("smtp_verification", results.methods_used)
        /\ \A i \in 1..Len(verified_emails_data) :
              verified_emails_data[i].verification_status = "none"
        /\ pc \in {"assess", "done"} =>
              /\ contact.domain \in DOMAIN results.verification_log
              /\ results.verification_log[contact.domain] = "DNS resolution failed"
        /\ Returned => AllUnknown

\* a run that returned entries after a DNS timeout, one of them a candidate
\* whose confidence would have passed the SMTP gate
C9_Witness ==
    /\ Returned
    /\ world.dns = DnsError("Timeout")
    /\ \E i \in FoundIdx : found_emails[i].confidence >= 3
    /\ results.methods_used # << >>

\* C10: a second run for the same contact against the same stub answers
\* returns the same found_emails sequence and the same most_likely_email
C10_RunsAgree ==
    Returned /\ run >= 2 =>
        /\ results.found_emails = prev.found_emails
        /\ results.most_likely_email = prev.most_likely_email

(* ------------------------------------------------------------------ *)
(* Components specified on their own: the find_email variables rest    *)
(* ------------------------------------------------------------------ *)
FindEmailNotCalled ==
    /\ world = NotCalled
    /\ pc = "not_called"
    /\ generated_patterns = << >>
    /\ scraped_emails = << >>
    /\ all_candidates = << >>
    /\ mail_server = NoMailServer
    /\ idx = 1
    /\ verified_emails_data = << >>
    /\ results = EmailResultDefault
    /\ probes = << >>
    /\ run = 1
    /\ prev = EmailResultDefault

(* ------------------------------------------------------------------ *)
(* patterns.rs: generate_email_patterns called repeatedly with the     *)
(* same arguments                                                      *)
(* ------------------------------------------------------------------ *)
MaxCalls == 2

GenNames == { << >>, <<" ">>, <<"A", "b">>, <<"B">>, <<"J", "a", "n", "e">>, <<"D", "o", "e">>, <<" ", "J", "o", " ", "A", "n">> }
GenDomains == { << >>, <<"l", "o", "c", "a", "l", "h", "o", "s", "t">>, <<"x", ".", "c">>, DomCo, DomExample }

InitPatterns ==
    /\ OthersNotCalled
    /\ FindEmailNotCalled
    /\ \E f \in GenNames, l \in GenNames, d \in GenDomains :
          gen_call = [pc |-> "called", first_name |-> f, last_name |-> l,
                      domain |-> d, returned |-> << >>]
    /\ smtp_probe = NotCalled
    /\ smtp_retry = NotCalled
    /\ proc = NotCalled
    /\ file_mode = NotCalled

\* one call; the HashSet of the call has its own random state
CallGeneratePatterns ==
    /\ gen_call.pc = "called"
    /\ Len(gen_call.returned) < MaxCalls
    /\ \E seed \in HashSeeds :
          gen_call' = [gen_call EXCEPT !.returned =
                          Append(@, generate_email_patterns(gen_call.first_name,
                                        gen_call.last_name, gen_call.domain, seed))]
    /\ UNCHANGED <<find_vars, smtp_probe, smtp_retry, proc, file_mode, more_vars>>

NextPatterns == CallGeneratePatterns

SpecPatterns == InitPatterns /\ [][NextPatterns]_vars

GenReturned == IF gen_call.pc = "called" THEN gen_call.returned ELSE << >>
GenCalls == 1..Len(GenReturned)

NoRepeats(s) == \A i, j \in 1..Len(s) : s[i] = s[j] => i = j

\* C11: generate_email_patterns is deterministic as a sequence: calls with
\* the same first name, last name and domain return the same addresses in
\* the same order.
C11_SameSequence ==
    \A i, j \in GenCalls : GenReturned[i] = GenReturned[j]

\* C12: generate_email_patterns never returns the same address twice, also
\* when a bare local-part template (first initial + last) gives the local
\* part of a full-address template (first@domain).
C12_NoAddressTwice ==
    \A i \in GenCalls : NoRepeats(GenReturned[i])

PlainAlphanumeric(s) ==
    /\ s # << >>
    /\ \A i \in 1..Len(s) : s[i] \in LowerLetters \cup UpperLetters \cup Digits

\* a domain the address pattern accepts: name characters, a '.', and a
\* top-level label of at least two letters
ValidDomain(d) ==
    \E k \in 2..(Len(d) - 2) :
        /\ d[k] = "."
        /\ \A i \in 1..(k - 1) : d[i] \in DomainClass
        /\ \A i \in (k + 1)..Len(d) : d[i] \in LowerLetters \cup UpperLetters

GenArgumentsRejected ==
    \/ sanitize_name_part(gen_call.first_name) = << >>
    \/ sanitize_name_part(gen_call.last_name) = << >>
    \/ gen_call.domain = << >>
    \/ ~ContainsChar(gen_call.domain, ".")

\* C13: generate_email_patterns returns the empty list whenever the first or
\* the last name is empty after sanitising, the domain is empty or the domain
\* has no '.'; for plain alphanumeric names and a valid domain it returns a
\* non-empty list.
C13_EmptyExactlyOnBadArguments ==
    \A i \in GenCalls :
        /\ GenArgumentsRejected => GenReturned[i] = << >>
        /\ ( /\ PlainAlphanumeric(gen_call.first_name)
             /\ PlainAlphanumeric(gen_call.last_name)
             /\ ValidDomain(gen_call.domain) ) => GenReturned[i] # << >>

\* a whitespace-only first name with a good last name and domain was rejected,
\* after the raw emptiness test of line 33 let it pass
C13_Witness ==
    /\ gen_call.pc = "called"
    /\ gen_call.first_name = <<" ">>
    /\ gen_call.last_name = <<"D", "o", "e">>
    /\ gen_call.domain = DomCo
    /\ Len(gen_call.returned) = MaxCalls
    /\ \A i \in GenCalls : gen_call.returned[i] = << >>

(* ------------------------------------------------------------------ *)
(* smtp.rs: verify_smtp_email step by step, with the commands it sends *)
(* ------------------------------------------------------------------ *)
NoReply == [ok |-> FALSE, text |-> {"no command sent"}]
NoReturn == [err |-> FALSE, result |-> inconclusive_no_retry("not returned")]

ProbeEmails == { <<"a", "b", "@", "c", "o", ".", "t", "e", "s", "t">>, <<"a", "b", ".", "c", "o", ".", "t", "e", "s", "t">> }
ProbeDomains == { DomCo, << >> }

\* what SmtpConnection::connect may return
ConnectOutcomes ==
    { OkReply(220, {}), ErrReply({"timed out"}), ErrReply({"connection refused"}),
      ErrReply({"connection reset"}), ErrReply({}) }

\* what SmtpConnection::command may return: a reply of any class, or an error
CommandErrors ==
    { ErrReply({"550", "5", "permanent", "user unknown"}),
      ErrReply({"5", "permanent"}), ErrReply({"4", "transient"}),
      ErrReply({"timed out"}), ErrReply({"timed out", "5", "permanent"}),
      ErrReply({"connection reset"}), ErrReply({}) }
CommandReplies ==
    { OkReply(250, {}), OkReply(354, {}), OkReply(451, {}),
      OkReply(550, {"user unknown"}), OkReply(552, {}), OkReply(554, {"rejected"}) }
CommandOutcomes == CommandReplies \cup CommandErrors

\* what (mail_server, 25).to_socket_addrs() may return: an address, an
\* empty iterator, or an io::Error for a host that does not resolve
ResolveOutcomes == {"addr", "none", "err"}

InitProbe ==
    /\ OthersNotCalled
    /\ FindEmailNotCalled
    /\ gen_call = NotCalled
    /\ \E e \in ProbeEmails, d \in ProbeDomains, s \in BOOLEAN :
          smtp_probe = [pc |-> "parse", email |-> e, domain |-> d,
                        sender_ok |-> s, resolved |-> "unresolved",
                        connected |-> FALSE, sent |-> << >>,
                        conn |-> NoReply, ehlo |-> NoReply,
                        mail |-> NoReply, target |-> NoReply, random |-> NoReply,
                        is_catch_all |-> FALSE, ret |-> NoReturn]
    /\ smtp_retry = NotCalled
    /\ proc = NotCalled
    /\ file_mode = NotCalled

ProbeUnchanged == UNCHANGED <<find_vars, gen_call, smtp_retry, proc, file_mode, more_vars>>

Return(p, r) == [p EXCEPT !.pc = "returned", !.ret = r]
Send(p, cmd) == [p EXCEPT !.sent = Append(@, cmd)]
\* smtp_conn.quit().ok()
Quit(p) == Send(p, "QUIT")

\* lines 39-52: the recipient and the configured sender are parsed
ProbeParse ==
    /\ smtp_probe.pc = "parse"
    /\ smtp_probe' =
          IF ~AddressFromStrOk(smtp_probe.email)
          THEN Return(smtp_probe, Probed(conclusive(FALSE, "Invalid email format", FALSE)))
          ELSE IF ~smtp_probe.sender_ok
          THEN Return(smtp_probe, [err |-> TRUE])
          ELSE [smtp_probe EXCEPT !.pc = "resolve"]
    /\ ProbeUnchanged

\* lines 54-63: to_socket_addrs()?.next()
ProbeResolve ==
    /\ smtp_probe.pc = "resolve"
    /\ \E r \in ResolveOutcomes :
          smtp_probe' =
             IF r = "err"
             THEN Return([smtp_probe EXCEPT !.resolved = r], [err |-> TRUE])
             ELSE IF r = "none"
             THEN Return([smtp_probe EXCEPT !.resolved = r],
                     Probed(inconclusive_no_retry("Could not resolve mail server address")))
             ELSE [smtp_probe EXCEPT !.resolved = r, !.pc = "connect"]
    /\ ProbeUnchanged

\* variant: every connect error goes to the classifier
ProbeConnectClassifierOnly ==
    /\ smtp_probe.pc = "connect"
    /\ \E c \in ConnectOutcomes :
          LET p == [smtp_probe EXCEPT !.conn = c]
          IN  smtp_probe' =
                 IF c.ok
                 THEN [p EXCEPT !.connected = TRUE, !.pc = "ehlo"]
                 ELSE Return(p, Probed(handle_smtp_error(c.text)))
    /\ ProbeUnchanged

\* lines 67-90: SmtpConnection::connect
ProbeConnect ==
    /\ smtp_probe.pc = "connect"
    /\ \E c \in ConnectOutcomes :
          LET p == [smtp_probe EXCEPT !.conn = c]
          IN  smtp_probe' =
                 IF c.ok
                 THEN [p EXCEPT !.connected = TRUE, !.pc = "ehlo"]
                 ELSE IF "timed out" \in c.text \/ "connection refused" \in c.text
                 THEN Return(p,
                         Probed(inconclusive_no_retry("Port 25 is likely blocked by your ISP")))
                 ELSE Return(p, Probed(handle_smtp_error(c.text)))
    /\ ProbeUnchanged

\* lines 92-100: EHLO; an error returns at once
ProbeEhlo ==
    /\ smtp_probe.pc = "ehlo"
    /\ \E c \in CommandOutcomes :
          LET p == [Send(smtp_probe, "EHLO") EXCEPT !.ehlo = c]
          IN  smtp_probe' =
                 IF c.ok
                 THEN [p EXCEPT !.pc = "mail"]
                 ELSE Return(p, Probed(handle_smtp_error(c.text)))
    /\ ProbeUnchanged

\* lines 105-127: MAIL FROM
ProbeMailFrom ==
    /\ smtp_probe.pc = "mail"
    /\ \E c \in CommandOutcomes :
          LET p == [Send(smtp_probe, "MAIL FROM") EXCEPT !.mail = c]
          IN  smtp_probe' =
                 IF ~c.ok
                 THEN Return(Quit(p), Probed(handle_smtp_error(c.text)))
                 ELSE IF Severity(c.code) \notin {2, 3}
                 THEN Return(Quit(p), Probed(inconclusive_no_retry("MAIL FROM rejected")))
                 ELSE [p EXCEPT !.pc = "rcpt"]
    /\ ProbeUnchanged

\* lines 130-165: RCPT TO for the target
ProbeRcpt ==
    /\ smtp_probe.pc = "rcpt"
    /\ \E c \in CommandOutcomes :
          LET p == [Send(smtp_probe, "RCPT TO target") EXCEPT !.target = c]
          IN  smtp_probe' =
                 IF ~c.ok
                 THEN Return(Quit(p), Probed(handle_smtp_error(c.text)))
                 ELSE [p EXCEPT !.pc = "catch_all"]
    /\ ProbeUnchanged

\* format!("no-reply-does-not-exist-{}@{}", .., domain)
random_user(domain) == <<"n", "o", "-", "r", "e", "p", "l", "y", "-", "d", "o", "e", "s", "-", "n", "o", "t", "-", "e", "x", "i", "s", "t", "-", "1", "0", "0", "0", "0", "0", "@">> \o domain

\* variant: the random recipient is tried whatever the target's reply class
ProbeCatchAllAlways ==
    /\ smtp_probe.pc = "catch_all"
    /\ IF AddressFromStrOk(random_user(smtp_probe.domain))
       THEN \E c \in CommandOutcomes :
               smtp_probe' =
                  [Send(smtp_probe, "RCPT TO random") EXCEPT
                      !.random = c,
                      !.is_catch_all = c.ok /\ Severity(c.code) = 2,
                      !.pc = "finish"]
       ELSE smtp_probe' = [smtp_probe EXCEPT !.pc = "finish"]
    /\ ProbeUnchanged

\* lines 167-199: the catch-all check with a random recipient
ProbeCatchAll ==
    /\ smtp_probe.pc = "catch_all"
    /\ IF /\ Severity(smtp_probe.target.code) = 2
          /\ AddressFromStrOk(random_user(smtp_probe.domain))
       THEN \E c \in CommandOutcomes :
               smtp_probe' =
                  [Send(smtp_probe, "RCPT TO random") EXCEPT
                      !.random = c,
                      !.is_catch_all = c.ok /\ Severity(c.code) = 2,
                      !.pc = "finish"]
       ELSE smtp_probe' = [smtp_probe EXCEPT !.pc = "finish"]
    /\ ProbeUnchanged

\* lines 201-275: the result from the target response, then QUIT
ProbeFinish ==
    /\ smtp_probe.pc = "finish"
    /\ smtp_probe' =
          Return(Quit(smtp_probe),
                 Probed(final_result(smtp_probe.target, smtp_probe.is_catch_all)))
    /\ ProbeUnchanged

NextProbe ==
    \/ ProbeParse
    \/ ProbeResolve
    \/ ProbeConnect
    \/ ProbeEhlo
    \/ ProbeMailFrom
    \/ ProbeRcpt
    \/ ProbeCatchAll
    \/ ProbeFinish

SpecProbe == InitProbe /\ [][NextProbe]_vars

ProbeReturned == smtp_probe.pc = "returned"
ProbeResult == smtp_probe.ret.result

CommandOrder == <<"EHLO", "MAIL FROM", "RCPT TO target", "RCPT TO random">>

\* C15: within one probe the commands sent are, in this order, EHLO, MAIL
\* FROM, RCPT TO for the target, at most one RCPT TO for a random recipient,
\* then QUIT; no other command is sent, and the random-recipient RCPT TO is
\* sent only after the target RCPT TO got a 2xx response.
C15_CommandSequence ==
    smtp_probe.pc # "not_called" =>
        LET sent == smtp_probe.sent
        IN  \A i \in 1..Len(sent) :
               /\ sent[i] = "QUIT" => i = Len(sent)
               /\ sent[i] # "QUIT" => i <= Len(CommandOrder) /\ sent[i] = CommandOrder[i]
               /\ sent[i] = "RCPT TO random" =>
                     smtp_probe.target.ok /\ Severity(smtp_probe.target.code) = 2

\* a complete probe with the catch-all check
C15_Witness ==
    /\ ProbeReturned
    /\ smtp_probe.sent = CommandOrder \o <<"QUIT">>

\* C17: the prober returns Err only for an internal invariant violation (a
\* malformed configured sender address), never for a remote or network
\* condition such as an unresolvable mail-server host.
C17_ErrOnlyForInvariantViolation ==
    (ProbeReturned /\ smtp_probe.ret.err) => ~smtp_probe.sender_ok

(* ------------------------------------------------------------------ *)
(* smtp.rs: verify_email_smtp_with_retries, one loop iteration at a    *)
(* time, over what verify_smtp_email may return                        *)
(* ------------------------------------------------------------------ *)
MaxAttempts == 3

ProberReturns ==
    { [err |-> TRUE],
      Probed(conclusive(TRUE, "SMTP Verification OK", FALSE)),
      Probed(conclusive(FALSE, "SMTP Rejected (User Likely Unknown)", FALSE)),
      Probed(inconclusive_retry("SMTP Temp Failure/Greylisted? (4xx)")),
      Probed(inconclusive_retry("SMTP accepted (Possible Catch-All)")),
      Probed(inconclusive_no_retry("MAIL FROM rejected")) }

InitRetry ==
    /\ OthersNotCalled
    /\ FindEmailNotCalled
    /\ gen_call = NotCalled
    /\ smtp_probe = NotCalled
    /\ \E m \in 0..MaxAttempts :
          smtp_retry = [pc |-> "loop", max_attempts |-> m, attempt |-> 0,
                        last_result |-> "none",
                        last_message |-> "SMTP check did not run or complete",
                        invoked |-> << >>,
                        ret |-> <<"none", "not returned">>]
    /\ proc = NotCalled
    /\ file_mode = NotCalled

\* lines 362-413: one iteration of `for attempt in 0..max_verification_attempts`
VerifyAttempt ==
    /\ smtp_retry.pc = "loop"
    /\ smtp_retry.attempt < smtp_retry.max_attempts
    /\ \E r \in ProberReturns :
          LET s == [smtp_retry EXCEPT !.invoked = Append(@, r),
                                      !.attempt = @ + 1]
          IN  smtp_retry' =
                 IF r.err
                 THEN [s EXCEPT !.last_message = "Internal error during SMTP check",
                                !.last_result =
                                    IF smtp_retry.attempt >= smtp_retry.max_attempts - 1
                                    THEN "none" ELSE @]
                 ELSE [s EXCEPT !.last_result = r.result.exists,
                                !.last_message = r.result.message,
                                !.pc = IF r.result.exists # "none" \/ ~r.result.should_retry
                                       THEN "break" ELSE "loop"]
    /\ UNCHANGED <<find_vars, gen_call, smtp_probe, proc, file_mode, more_vars>>

\* lines 415-420: the loop is left and (last_result, last_message) returned
VerifyReturn ==
    /\ \/ smtp_retry.pc = "break"
       \/ smtp_retry.pc = "loop" /\ smtp_retry.attempt >= smtp_retry.max_attempts
    /\ smtp_retry' = [smtp_retry EXCEPT
                         !.pc = "returned",
                         !.ret = <<smtp_retry.last_result, smtp_retry.last_message>>]
    /\ UNCHANGED <<find_vars, gen_call, smtp_probe, proc, file_mode, more_vars>>

NextRetry ==
    \/ VerifyAttempt
    \/ VerifyReturn

SpecRetry == InitRetry /\ [][NextRetry]_vars

Invoked == IF smtp_retry.pc = "not_called" THEN << >> ELSE smtp_retry.invoked
InconclusiveRetriable(r) ==
    ~r.err /\ r.result.exists = "none" /\ r.result.should_retry

\* C16: verify_email_smtp_with_retries invokes the prober at most
\* max_verification_attempts times, stops after the first conclusive result
\* and after the first inconclusive result with should_retry=false, invokes
\* the prober again only after an inconclusive retriable result, and returns
\* the status and message of the last prober invocation.
C16_RetryDiscipline ==
    /\ smtp_retry.pc # "not_called" => Len(Invoked) <= smtp_retry.max_attempts
    /\ \A i \in 1..(Len(Invoked) - 1) : InconclusiveRetriable(Invoked[i])
    /\ (smtp_retry.pc = "returned" /\ Invoked # << >>) =>
          LET last == Invoked[Len(Invoked)]
          IN  ~last.err =>
                 smtp_retry.ret = <<last.result.exists, last.result.message>>

(* ------------------------------------------------------------------ *)
(* processor.rs: process_record                                        *)
(* ------------------------------------------------------------------ *)
\* Option<T>
None == [some |-> FALSE, value |-> << >>]
Some(v) == [some |-> TRUE, value |-> v]
\* as_deref().unwrap_or("")
UnwrapOrEmpty(o) == IF o.some THEN o.value ELSE << >>
\* a.or(b)
OrOption(a, b) == IF a.some THEN a ELSE b

RECURSIVE TrimStart(_)
TrimStart(s) ==
    IF s # << >> /\ Head(s) \in Whitespace THEN TrimStart(Tail(s)) ELSE s

RECURSIVE TrimEnd(_)
TrimEnd(s) ==
    IF s # << >> /\ s[Len(s)] \in Whitespace
    THEN TrimEnd(SubSeq(s, 1, Len(s) - 1)) ELSE s

\* str::trim
Trim(s) == TrimEnd(TrimStart(s))

StartsWith(s, t) == Len(s) >= Len(t) /\ SubSeq(s, 1, Len(t)) = t

\* str::split_whitespace().collect()
RECURSIVE split_whitespace(_)
split_whitespace(s) ==
    LET t == TrimStart(s)
    IN  IF t = << >> THEN << >>
        ELSE LET stops == {i \in 1..Len(t) : t[i] \in Whitespace} \cup {Len(t) + 1}
                 n == Min(stops)
             IN  <<SubSeq(t, 1, n - 1)>> \o split_whitespace(SubSeq(t, n, Len(t)))

\* lines 52-75: names taken from full_name where first or last is missing
derive_names(first_name, last_name, original_full_name) ==
    LET name_parts == split_whitespace(original_full_name)
        given == [first_name |-> first_name, last_name |-> last_name]
    IN  IF ~((first_name = << >> \/ last_name = << >>) /\ original_full_name # << >>)
        THEN given
        ELSE IF Len(name_parts) >= 2
        THEN [first_name |-> IF first_name = << >> THEN name_parts[1] ELSE first_name,
              last_name |-> IF last_name = << >> THEN name_parts[Len(name_parts)]
                            ELSE last_name]
        ELSE IF Len(name_parts) = 1
        THEN IF first_name = << >> /\ last_name = << >>
             THEN [first_name |-> name_parts[1], last_name |-> name_parts[1]]
             ELSE IF first_name = << >>
             THEN [first_name |-> name_parts[1], last_name |-> last_name]
             ELSE [first_name |-> first_name, last_name |-> name_parts[1]]
        ELSE given

\* variant: only the domain is required
missing_parts_domain_only(first_name, last_name, domain_input_str) ==
    IF domain_input_str = << >> THEN <<"domain">> ELSE << >>

\* lines 77-86
missing_parts(first_name, last_name, domain_input_str) ==
       (IF first_name = << >> THEN <<"first name">> ELSE << >>)
    \o (IF last_name = << >> THEN <<"last name">> ELSE << >>)
    \o (IF domain_input_str = << >> THEN <<"domain">> ELSE << >>)

(* domain.rs: Url::parse is stubbed: it fails when the host is empty or *)
(* holds a character that cannot be part of a host.                     *)
with_scheme(s) ==
    IF ~StartsWith(s, <<"h", "t", "t", "p", ":", "/", "/">>) /\ ~StartsWith(s, <<"h", "t", "t", "p", "s", ":", "/", "/">>)
    THEN <<"h", "t", "t", "p", "s", ":", "/", "/">> \o s ELSE s

host_of(url) ==
    LET rest == IF StartsWith(url, <<"h", "t", "t", "p", "s", ":", "/", "/">>) THEN SubSeq(url, 9, Len(url))
                ELSE SubSeq(url, 8, Len(url))
        stops == {i \in 1..Len(rest) : rest[i] = "/"} \cup {Len(rest) + 1}
    IN  SubSeq(rest, 1, Min(stops) - 1)

UrlParseOk(url) ==
    /\ host_of(url) # << >>
    /\ \A i \in 1..Len(host_of(url)) : host_of(url)[i] \notin Whitespace

\* get_domain_from_url: Ok(lower-cased host without a leading "www.") or Err
get_domain_from_url(s) ==
    IF s = << >> \/ ~UrlParseOk(with_scheme(s)) THEN None
    ELSE LET host == host_of(with_scheme(s))
             domain == IF StartsWith(host, <<"w", "w", "w", ".">>) THEN SubSeq(host, 5, Len(host))
                       ELSE host
         IN  Some(to_lowercase(domain))

\* normalize_url: Ok(url) or Err
normalize_url(s) ==
    IF s = << >> \/ ~UrlParseOk(with_scheme(s)) THEN None
    ELSE Some(with_scheme(s))

DefaultMaxAlternatives == 5
max_alternatives == DefaultMaxAlternatives

\* Result<EmailResult, AppError> of find_email
FindOk(res) == [ok |-> TRUE, results |-> res]
FindErr == [ok |-> FALSE, results |-> EmailResultDefault]

\* Iterator::take
Take(s, n) == SubSeq(s, 1, MinOf(n, Len(s)))

\* lines 77-149: the ProcessingResult of a skipped record
SkippedRecord(kind, parts) ==
    [email_discovery_results |-> None, email |-> None, email_confidence |-> None,
     email_verification_method |-> None, email_alternatives |-> << >>,
     email_finding_skipped |-> TRUE,
     email_finding_reason |-> Some([kind |-> kind, parts |-> parts]),
     email_verification_failed |-> FALSE, email_finding_error |-> None]

\* lines 170-227: the ProcessingResult built from what find_email returned
process_record_outcome(find_result) ==
    IF find_result.ok
    THEN LET res == find_result.results
             selected == res.most_likely_email # NoEmail
             Other(e) == ~(selected /\ e.email = res.most_likely_email)
             others == Take(SelectSeq(res.found_emails, Other), max_alternatives)
         IN  [email_discovery_results |-> Some(res),
              email |-> IF selected THEN Some(res.most_likely_email) ELSE None,
              email_confidence |-> IF selected THEN Some(res.confidence_score)
                                   ELSE None,
              email_verification_method |-> Some(res.methods_used),
              email_alternatives |-> [i \in 1..Len(others) |-> others[i].email],
              email_finding_skipped |-> FALSE,
              email_finding_reason |-> None,
              email_verification_failed |-> ~selected /\ res.found_emails # << >>,
              email_finding_error |-> None]
    ELSE [email_discovery_results |-> None, email |-> None,
          email_confidence |-> None, email_verification_method |-> None,
          email_alternatives |-> << >>, email_finding_skipped |-> FALSE,
          email_finding_reason |-> None, email_verification_failed |-> FALSE,
          email_finding_error |-> Some("Core processing error")]

\* input records: each field absent or a string
RecordFirstNames == { None, Some(<<" ">>), Some(<<"J", "a", "n", "e">>) }
RecordLastNames == { None, Some(<< >>), Some(<<"D", "o", "e", " ">>) }
RecordFullNames == { None, Some(<<" ">>), Some(<<"C", "h", "e", "r">>), Some(<<"J", "a", "n", "e", " ", "Q", " ", "D", "o", "e">>) }
RecordDomains == { None, Some(<<" ">>), Some(<<"c", "o", ".", "t", "e", "s", "t">>), Some(<<"w", "w", "w", ".", "C", "o", ".", "T", "e", "s", "t", "/", "t", "e", "a", "m">>),
                   Some(<<"b", "a", "d", " ", "h", "o", "s", "t">>) }
RecordCompanyDomains == { None, Some(DomExample) }

SampleFound(email, confidence) ==
    [email |-> email, confidence |-> confidence, source |-> SourcePattern,
     is_generic |-> FALSE, verification_status |-> "unknown",
     verification_message |-> "Verification skipped (low initial confidence)"]

\* what the engine may hand back to process_record
SampleResults ==
    { EmailResultDefault,
      [EmailResultDefault EXCEPT
          !.found_emails = << SampleFound(<<"j", "a", "n", "e", "@", "c", "o", ".", "t", "e", "s", "t">>, 3) >>],
      [EmailResultDefault EXCEPT
          !.found_emails = << SampleFound(<<"j", "a", "n", "e", ".", "d", "o", "e", "@", "c", "o", ".", "t", "e", "s", "t">>, 5),
                              SampleFound(<<"j", "a", "n", "e", "@", "c", "o", ".", "t", "e", "s", "t">>, 4) >>,
          !.most_likely_email = <<"j", "a", "n", "e", ".", "d", "o", "e", "@", "c", "o", ".", "t", "e", "s", "t">>,
          !.confidence_score = 5] }

NoResult == SkippedRecord("not returned", << >>)
NoContact == [first_name |-> << >>, last_name |-> << >>, full_name |-> << >>,
              website_url |-> << >>, domain |-> << >>]

InitRecord ==
    /\ OthersNotCalled
    /\ FindEmailNotCalled
    /\ gen_call = NotCalled
    /\ smtp_probe = NotCalled
    /\ smtp_retry = NotCalled
    /\ \E f \in RecordFirstNames, l \in RecordLastNames, n \in RecordFullNames,
          d \in RecordDomains, c \in RecordCompanyDomains :
          proc = [pc |-> "start",
                  record |-> [first_name |-> f, last_name |-> l, full_name |-> n,
                              domain |-> d, company_domain |-> c],
                  contact |-> NoContact, engine_calls |-> 0, result |-> NoResult]
    /\ file_mode = NotCalled

RecordUnchanged == UNCHANGED <<find_vars, gen_call, smtp_probe, smtp_retry, file_mode, more_vars>>

\* lines 31-165: trim, derive the names, check, build the ValidatedContact
ValidateRecord ==
    /\ proc.pc = "start"
    /\ LET first_in == Trim(UnwrapOrEmpty(proc.record.first_name))
           last_in == Trim(UnwrapOrEmpty(proc.record.last_name))
           original_full_name == Trim(UnwrapOrEmpty(proc.record.full_name))
           domain_input_str ==
               Trim(UnwrapOrEmpty(OrOption(proc.record.domain,
                                           proc.record.company_domain)))
           names == derive_names(first_in, last_in, original_full_name)
           missing == missing_parts(names.first_name, names.last_name,
                                    domain_input_str)
           domain == get_domain_from_url(domain_input_str)
           website_url == normalize_url(domain_input_str)
           final_full_name ==
               IF original_full_name # << >> THEN original_full_name
               ELSE Trim(names.first_name \o <<" ">> \o names.last_name)
           Skip(kind, parts) ==
               [proc EXCEPT !.pc = "returned", !.result = SkippedRecord(kind, parts)]
       IN  proc' =
              IF missing # << >> THEN Skip("Missing", missing)
              ELSE IF ~domain.some
              THEN Skip("Cannot extract domain from input", << >>)
              ELSE IF ~website_url.some
              THEN Skip("Invalid input for URL normalization", << >>)
              ELSE [proc EXCEPT
                       !.pc = "find_email",
                       !.contact = [first_name |-> names.first_name,
                                    last_name |-> names.last_name,
                                    full_name |-> final_full_name,
                                    website_url |-> website_url.value,
                                    domain |-> domain.value]]
    /\ RecordUnchanged

\* lines 167-227: the engine runs (patterns, HTTP, DNS, SMTP) and its
\* EmailResult is turned into the ProcessingResult
CallFindEmail ==
    /\ proc.pc = "find_email"
    /\ \E res \in SampleResults :
          proc' = [proc EXCEPT !.pc = "returned",
                               !.engine_calls = @ + 1,
                               !.result = process_record_outcome(FindOk(res))]
    /\ RecordUnchanged

NextRecord ==
    \/ ValidateRecord
    \/ CallFindEmail

SpecRecord == InitRecord /\ [][NextRecord]_vars

\* the names and the domain as they stand after the derivation of lines 52-75
DerivedNames ==
    derive_names(Trim(UnwrapOrEmpty(proc.record.first_name)),
                 Trim(UnwrapOrEmpty(proc.record.last_name)),
                 Trim(UnwrapOrEmpty(proc.record.full_name)))
DomainInput ==
    Trim(UnwrapOrEmpty(OrOption(proc.record.domain, proc.record.company_domain)))
PartMissing ==
    \/ DerivedNames.first_name = << >>
    \/ DerivedNames.last_name = << >>
    \/ DomainInput = << >>

\* C19: when after deriving names from full_name the first name, the last
\* name or the domain of a record is empty, process_record returns a result
\* with email_finding_skipped = true, a reason, no error and no discovery
\* results, before any pattern generation, HTTP, DNS or SMTP activity.
C19_MissingPartsSkipped ==
    (proc.pc \notin {"not_called", "start"} /\ PartMissing) =>
        /\ proc.pc = "returned"
        /\ proc.engine_calls = 0
        /\ proc.result.email_finding_skipped
        /\ proc.result.email_finding_reason.some
        /\ proc.result.email_finding_reason.value.kind = "Missing"
        /\ ~proc.result.email_finding_error.some
        /\ ~proc.result.email_discovery_results.some

\* the record whose only name is ' ' was skipped for its first and last name
C19_Witness ==
    /\ proc.pc = "returned"
    /\ ~proc.record.first_name.some
    /\ ~proc.record.last_name.some
    /\ proc.record.full_name = Some(<<" ">>)
    /\ proc.record.domain = Some(<<"c", "o", ".", "t", "e", "s", "t">>)
    /\ proc.result.email_finding_skipped
    /\ proc.result.email_finding_reason.value.parts = <<"first name", "last name">>

(* ------------------------------------------------------------------ *)
(* find_email under process_record: an Err of the prober               *)
(* ------------------------------------------------------------------ *)
\* find_email has reached `Ok(results)`; process_record builds its result
RecordOutcome == process_record_outcome(FindOk(results))

\* the configured sender is malformed and a candidate was sent to the verifier
SenderViolationProbed ==
    /\ Returned
    /\ world.smtp.mode = "bad_sender"
    /\ probes # << >>

\* C18: an internal invariant violation raised during a probe (a malformed
\* smtp_sender_email) makes find_email return an error, which process_record
\* reports as email_finding_error with no email_discovery_results, instead
\* of the probe being scored as an inconclusive verification.
C18_InvariantViolationSurfaces ==
    SenderViolationProbed =>
        /\ RecordOutcome.email_finding_error.some
        /\ ~RecordOutcome.email_discovery_results.some

(* ------------------------------------------------------------------ *)
(* main.rs, file mode: the spawn loop over the input records, the      *)
(* process_record tasks and the collection of their results            *)
(* ------------------------------------------------------------------ *)
MaxRecords == 4
MaxConcurrencySetting == 3

\* config.rs 497-500: max_concurrency 0 is replaced by 1
validate_max_concurrency(raw) == IF raw = 0 THEN 1 ELSE raw

\* the sort key of the i-th input record: full_name or first_name
InputNames == << <<"b", "o">>, <<"a", "l">>, <<"b", "o">>, <<"c", "y">>, <<"a", "l">> >>
RecordName(i) == InputNames[((i - 1) % Len(InputNames)) + 1]

\* variant: one task more than max_concurrency is let in
at_capacity_off_by_one(len, max_concurrency) == len > max_concurrency

\* main.rs 340: tasks.len() >= CONFIG.max_concurrency
at_capacity(len, max_concurrency) == len >= max_concurrency

\* main.rs 384-399: stable sort of the collected results by name
InsertByName(sorted, x) ==
    LET k == Cardinality({i \in 1..Len(sorted) :
                             StrCmp(RecordName(sorted[i]), RecordName(x)) <= 0})
    IN  SubSeq(sorted, 1, k) \o <<x>> \o SubSeq(sorted, k + 1, Len(sorted))

RECURSIVE sort_by_name(_)
sort_by_name(s) ==
    IF s = << >> THEN << >>
    ELSE InsertByName(sort_by_name(SubSeq(s, 1, Len(s) - 1)), s[Len(s)])

InitFile ==
    /\ OthersNotCalled
    /\ FindEmailNotCalled
    /\ gen_call = NotCalled
    /\ smtp_probe = NotCalled
    /\ smtp_retry = NotCalled
    /\ proc = NotCalled
    /\ \E raw \in 0..MaxConcurrencySetting, n \in 1..MaxRecords :
          file_mode = [pc |-> "loop",
                       max_concurrency |-> validate_max_concurrency(raw),
                       total_records |-> n,
                       next |-> 1,            \* the record the loop is at
                       running |-> {},        \* spawned, process_record not done
                       finished |-> {},       \* done, not yet yielded by tasks
                       panicked |-> {},       \* ended in a panic, not yet yielded
                       panics |-> 0,          \* tasks that have panicked so far
                       spawned_at_capacity |-> FALSE,
                       processed_records |-> << >>,
                       saved |-> << >>]

FileUnchanged == UNCHANGED <<find_vars, gen_call, smtp_probe, smtp_retry, proc, more_vars>>

\* FuturesUnordered::len
TasksLen(f) == Cardinality(f.running \cup f.finished \cup f.panicked)

\* tasks.push(tokio::spawn(process_record(..)))
Spawn(f) == [f EXCEPT !.running = @ \cup {f.next}, !.next = @ + 1]

\* variant: a yielded result is counted but not kept
YieldCountOnly(f, t) ==
    IF t \in f.finished
    THEN [f EXCEPT !.finished = @ \ {t}]
    ELSE [f EXCEPT !.panicked = @ \ {t}]

\* one result yielded by tasks.next().await: Ok(processed) is pushed, a
\* JoinError is only logged
Yield(f, t) ==
    IF t \in f.finished
    THEN [f EXCEPT !.finished = @ \ {t},
                   !.processed_records = Append(@, t)]
    ELSE [f EXCEPT !.panicked = @ \ {t}]

\* lines 339-358 while tasks.len() < max_concurrency: spawn at once
SpawnTask ==
    /\ file_mode.pc = "loop"
    /\ file_mode.next <= file_mode.total_records
    /\ ~at_capacity(TasksLen(file_mode), file_mode.max_concurrency)
    /\ file_mode' = Spawn(file_mode)
    /\ FileUnchanged

\* lines 340-358 at capacity: wait for one task to be yielded, then spawn
AwaitThenSpawn ==
    /\ file_mode.pc = "loop"
    /\ file_mode.next <= file_mode.total_records
    /\ at_capacity(TasksLen(file_mode), file_mode.max_concurrency)
    /\ \E t \in file_mode.finished \cup file_mode.panicked :
          file_mode' = [Spawn(Yield(file_mode, t)) EXCEPT
                           !.spawned_at_capacity = TRUE]
    /\ FileUnchanged

\* a spawned process_record task runs to its end
TaskFinishes ==
    /\ file_mode.pc \in {"loop", "drain"}
    /\ \E t \in file_mode.running :
          file_mode' = [file_mode EXCEPT !.running = @ \ {t},
                                         !.finished = @ \cup {t}]
    /\ FileUnchanged

\* a spawned task panics: its JoinHandle yields Err(JoinError)
TaskPanics ==
    /\ file_mode.pc \in {"loop", "drain"}
    /\ \E t \in file_mode.running :
          file_mode' = [file_mode EXCEPT !.running = @ \ {t},
                                         !.panicked = @ \cup {t},
                                         !.panics = @ + 1]
    /\ FileUnchanged

\* the for loop has gone through all records
LoopEnds ==
    /\ file_mode.pc = "loop"
    /\ file_mode.next > file_mode.total_records
    /\ file_mode' = [file_mode EXCEPT !.pc = "drain"]
    /\ FileUnchanged

\* lines 361-373: while let Some(result) = tasks.next().await
DrainOne ==
    /\ file_mode.pc = "drain"
    /\ \E t \in file_mode.finished \cup file_mode.panicked :
          file_mode' = Yield(file_mode, t)
    /\ FileUnchanged

\* lines 375-406: tasks is empty; sort by name and save
SortAndSave ==
    /\ file_mode.pc = "drain"
    /\ TasksLen(file_mode) = 0
    /\ file_mode' = [file_mode EXCEPT
                        !.pc = "saved",
                        !.saved = sort_by_name(file_mode.processed_records)]
    /\ FileUnchanged

NextFile ==
    \/ SpawnTask
    \/ AwaitThenSpawn
    \/ TaskFinishes
    \/ TaskPanics
    \/ LoopEnds
    \/ DrainOne
    \/ SortAndSave

SpecFile == InitFile /\ [][NextFile]_vars

\* C20: in file mode at most max_concurrency process_record tasks are in
\* flight at every moment, for every number of records and every validated
\* max_concurrency >= 1; with max_concurrency tasks pending, the next task
\* is spawned only after one of them has completed and been taken out.
C20_AtMostMaxConcurrency ==
    file_mode.pc # "not_called" =>
        /\ file_mode.max_concurrency >= 1
        /\ Cardinality(file_mode.running) <= file_mode.max_concurrency
        /\ TasksLen(file_mode) <= file_mode.max_concurrency

\* the loop had to wait at capacity, and the limit is used in full again
C20_Witness ==
    /\ file_mode.pc = "loop"
    /\ file_mode.spawned_at_capacity
    /\ file_mode.max_concurrency = 2
    /\ Cardinality(file_mode.running) = file_mode.max_concurrency
    /\ file_mode.next <= file_mode.total_records

(* ------------------------------------------------------------------ *)
(* Properties of find_email's stages                                   *)
(* ------------------------------------------------------------------ *)
MethodIf(used, name) == IF used THEN <<name>> ELSE << >>

\* C21: methods_used lists each method at most once and in first-use order,
\* and a method is listed iff its stage was exercised: pattern_generation iff
\* the pattern list is non-empty, website_scraping iff a scraped email
\* survives the domain-or-generic filter, smtp_verification iff the verifier
\* was invoked for at least one candidate.
C21_MethodsUsed ==
    Returned =>
        results.methods_used =
              MethodIf(generated_patterns # << >>, "pattern_generation")
           \o MethodIf(scraped_emails # << >>, "website_scraping")
           \o MethodIf(probes # << >>, "smtp_verification")

\* all three stages were exercised and the verifier ran more than once
C21_Witness ==
    /\ Returned
    /\ Len(results.methods_used) = 3
    /\ Len(probes) >= 2

(* ------------------------------------------------------------------ *)
(* smtp.rs: failures of single commands of the probe                   *)
(* ------------------------------------------------------------------ *)
Last(s) == s[Len(s)]
RcptSent ==
    InSeq("RCPT TO target", smtp_probe.sent) \/ InSeq("RCPT TO random", smtp_probe.sent)
MailFromFailed ==
    /\ InSeq("MAIL FROM", smtp_probe.sent)
    /\ ~smtp_probe.mail.ok \/ Severity(smtp_probe.mail.code) \notin {2, 3}

\* C22: whenever MAIL FROM fails, by a non-positive response or by an error
\* of the command, the probe returns an inconclusive result with
\* should_retry = false and no RCPT TO has been sent on the connection.
C22_MailFromFailureNoRetry ==
    (ProbeReturned /\ MailFromFailed) =>
        /\ ~smtp_probe.ret.err
        /\ ProbeResult.exists = "none"
        /\ ~ProbeResult.should_retry
        /\ ~RcptSent

\* the reply that ended the probe with an error of the transport, if any
TimedOut(reply) == ~reply.ok /\ "timed out" \in reply.text
OnlyTimedOut(reply) == ~reply.ok /\ reply.text = {"timed out"}
InconclusiveWithRetry(retry) ==
    /\ ~smtp_probe.ret.err
    /\ ProbeResult.exists = "none"
    /\ ProbeResult.should_retry = retry

\* the statement as given: a timeout at any step is inconclusive with retry
C23_EveryTimeoutRetried ==
    ProbeReturned =>
        /\ TimedOut(smtp_probe.conn) => InconclusiveWithRetry(TRUE)
        /\ TimedOut(smtp_probe.ehlo) => InconclusiveWithRetry(TRUE)
        /\ TimedOut(smtp_probe.mail) => InconclusiveWithRetry(TRUE)
        /\ TimedOut(smtp_probe.target) => InconclusiveWithRetry(TRUE)

\* C23: an error of EHLO, MAIL FROM or the target's RCPT TO whose text
\* names a timeout and none of the classifier's earlier phrases is
\* inconclusive with should_retry = true; a timeout while connecting is
\* inconclusive with should_retry = false (the port 25 heuristic), and a
\* timeout of the random recipient's RCPT TO does not change the result.
C23_TimeoutClassification ==
    ProbeReturned =>
        /\ TimedOut(smtp_probe.conn) => InconclusiveWithRetry(FALSE)
        /\ OnlyTimedOut(smtp_probe.ehlo) => InconclusiveWithRetry(TRUE)
        /\ OnlyTimedOut(smtp_probe.mail) => InconclusiveWithRetry(TRUE)
        /\ OnlyTimedOut(smtp_probe.target) => InconclusiveWithRetry(TRUE)
        /\ TimedOut(smtp_probe.random) =>
              ProbeResult = final_result(smtp_probe.target, FALSE)

\* a probe whose MAIL FROM timed out has returned
C23_Witness ==
    /\ ProbeReturned
    /\ OnlyTimedOut(smtp_probe.mail)
    /\ ProbeResult.should_retry

\* C24: after a successful connect the probe attempts QUIT on every exit
\* path: EHLO failure, MAIL FROM rejection or error, RCPT error and normal
\* completion all end with QUIT as the last command on the connection.
C24_QuitOnEveryExit ==
    (ProbeReturned /\ smtp_probe.connected) =>
        /\ smtp_probe.sent # << >>
        /\ Last(smtp_probe.sent) = "QUIT"

(* ------------------------------------------------------------------ *)
(* dns.rs: resolve_mail_server called with any answer of the resolver  *)
(* ------------------------------------------------------------------ *)
MaxMx == 3

MxPreferences == {5, 10}
MxExchanges == { <<"a", ".">>, <<"b">>, <<".">> }
MxRecords == [preference : MxPreferences, exchange : MxExchanges]
\* substrings that format!("{:?}", e.kind()) may hold; the resolver reports
\* a name that does not exist as NoRecordsFound { .., response_code: NXDomain }
ResolveErrorTexts ==
    { {"NoRecordsFound"}, {"NoRecordsFound", "NXDomain"}, {"NXDomain"},
      {"Name does not exist"}, {"Timeout"}, {} }
MxAnswers ==
       {[kind |-> "records", records |-> r] :
            r \in UNION {[1..k -> MxRecords] : k \in 0..MaxMx}}
    \cup {[kind |-> "error", error |-> e] : e \in ResolveErrorTexts}
IpAnswers ==
       {[kind |-> "addrs", addrs |-> a] :
            a \in { << >>, << <<"1">>, <<"2">> >> }}
    \cup {[kind |-> "error", error |-> e] : e \in ResolveErrorTexts}

InitDns ==
    /\ FindEmailNotCalled
    /\ gen_call = NotCalled
    /\ smtp_probe = NotCalled
    /\ smtp_retry = NotCalled
    /\ proc = NotCalled
    /\ file_mode = NotCalled
    /\ \E m \in MxAnswers, i \in IpAnswers :
          dns_call = [pc |-> "called", dns |-> [mx |-> m, ip |-> i],
                      ret |-> NoMailServer]
    /\ scrape_call = NotCalled
    /\ gate_call = NotCalled

CallResolveMailServer ==
    /\ dns_call.pc = "called"
    /\ dns_call' = [dns_call EXCEPT !.pc = "returned",
                                    !.ret = resolve_mail_server(dns_call.dns)]
    /\ UNCHANGED <<find_vars, gen_call, smtp_probe, smtp_retry, proc, file_mode,
                   scrape_call, gate_call>>

NextDns == CallResolveMailServer

SpecDns == InitDns /\ [][NextDns]_vars

DnsReturned == dns_call.pc = "returned"
MxAnswer == dns_call.dns.mx
\* the first record of minimum preference
IsFirstOfMinimum(records, j) ==
    /\ \A i \in 1..Len(records) : records[j].preference <= records[i].preference
    /\ \A i \in 1..(j - 1) : records[i].preference > records[j].preference
MxIsNxDomain == MxAnswer.kind = "error" /\ "NXDomain" \in MxAnswer.error
MxIsTimeout == MxAnswer.kind = "error" /\ "Timeout" \in MxAnswer.error
MxIsOtherError == MxAnswer.kind = "error" /\ MxAnswer.error = {}
MxHasNoRecords ==
    \/ MxAnswer.kind = "records" /\ MxAnswer.records = << >>
    \/ MxAnswer.kind = "error" /\ "NoRecordsFound" \in MxAnswer.error

\* the part of the statement about answers with records
FromMxRecords ==
    (MxAnswer.kind = "records" /\ MxAnswer.records # << >>) =>
        \E j \in 1..Len(MxAnswer.records) :
           /\ IsFirstOfMinimum(MxAnswer.records, j)
           /\ ~dns_call.ret.fallback
           /\ IF TrimEndDots(MxAnswer.records[j].exchange) = << >>
              THEN ~dns_call.ret.ok
              ELSE /\ dns_call.ret.ok
                   /\ dns_call.ret.exchange = TrimEndDots(MxAnswer.records[j].exchange)
                   /\ dns_call.ret.preference = MxAnswer.records[j].preference

\* C25: resolve_mail_server returns the MX of minimum preference (the first
\* among equals); it attempts the A/AAAA fallback exactly when the MX query
\* gave zero records or a no-records answer, and the fallback's server has
\* preference u16::MAX; on NXDOMAIN, a timeout, another MX error or an empty
\* exchange of the best MX it returns an error without attempting the fallback.
C25_MailServerResolution ==
    DnsReturned =>
        /\ FromMxRecords
        /\ dns_call.ret.fallback <=> MxHasNoRecords
        /\ (dns_call.ret.fallback /\ dns_call.ret.ok) =>
              dns_call.ret.preference = U16Max
        /\ (MxIsNxDomain \/ MxIsTimeout \/ MxIsOtherError) =>
              ~dns_call.ret.ok /\ ~dns_call.ret.fallback

(* ------------------------------------------------------------------ *)
(* sleuth.rs: the order of the candidate list and of the verifications *)
(* ------------------------------------------------------------------ *)
CandidatesMerged == pc \in {"resolve", "assess", "sort", "done"}
NameBearing(e) == Contains(e, first_lower) \/ Contains(e, last_lower)
\* the priority bucket of a candidate, 1 (first) to 4 (last)
BucketOf(e) ==
    IF NameBearing(e) /\ InSeq(e, generated_patterns) THEN 1
    ELSE IF NameBearing(e) THEN 2
    ELSE IF InSeq(e, scraped_emails) THEN 3
    ELSE 4
CandidateIndex(e) == CHOOSE i \in 1..Len(all_candidates) : all_candidates[i] = e

\* C26: the candidate list, as merged and as it is at the return, holds no
\* address twice and follows the priority of the four buckets (name-bearing
\* patterns, name-bearing scraped, other scraped, other patterns); the
\* verifier is invoked for candidates one after the other in the order of
\* that list.
C26_CandidateOrder ==
    CandidatesMerged =>
        /\ pc \in {"resolve", "done"} =>
              /\ NoRepeats(all_candidates)
              /\ \A i \in 1..(Len(all_candidates) - 1) :
                    BucketOf(all_candidates[i]) <= BucketOf(all_candidates[i + 1])
        /\ \A k \in 1..Len(probes) : InSeq(probes[k].email, all_candidates)
        /\ \A k \in 1..(Len(probes) - 1) :
              CandidateIndex(probes[k].email) < CandidateIndex(probes[k + 1].email)

\* a list with candidates of all four buckets, two of them verified
C26_Witness ==
    /\ Returned
    /\ {BucketOf(all_candidates[i]) : i \in 1..Len(all_candidates)} = 1..4
    /\ Len(probes) >= 2

(* ------------------------------------------------------------------ *)
(* sleuth.rs: candidates on another host than the contact's domain     *)
(* ------------------------------------------------------------------ *)
OffDomain(email) == to_lowercase(SplitAt1(email)) # contact.domain
\* admitted by line 173 although on another host
OffDomainAdmitted(email) == OffDomain(email) /\ ~Skipped(email)
GateOpen(email) ==
    should_verify_smtp(TRUE, penalised_confidence(Features(email)),
                       Features(email).is_scraped, Features(email).name_in_email)

\* C29: no SMTP probe is issued for an address on another host than the
\* contact's domain: an off-domain candidate is admitted only as scraped and
\* generic, and its penalised confidence never opens the SMTP gate.
C29_NoOffDomainProbe ==
    /\ \A k \in 1..Len(probes) : ~OffDomain(probes[k].email)
    /\ CandidatesMerged =>
          \A i \in 1..Len(all_candidates) :
             OffDomainAdmitted(all_candidates[i]) =>
                /\ Features(all_candidates[i]).is_scraped
                /\ Features(all_candidates[i]).is_generic
                /\ ~GateOpen(all_candidates[i])

\* a mail server is known and an off-domain generic address that holds the
\* contact's name went through the loop without a probe
C29_Witness ==
    /\ Returned
    /\ mail_server.ok
    /\ \E i \in 1..Len(all_candidates) :
          /\ OffDomainAdmitted(all_candidates[i])
          /\ Features(all_candidates[i]).name_in_email
          /\ \A k \in 1..Len(probes) : probes[k].email # all_candidates[i]

(* ------------------------------------------------------------------ *)
(* sleuth.rs: admission, scoring, penalty and SMTP gate of one         *)
(* candidate, for every combination of its features                    *)
(* ------------------------------------------------------------------ *)
\* a candidate comes from the patterns, from the scraper or from both
CandidateFeatures ==
    {f \in [is_pattern : BOOLEAN, is_scraped : BOOLEAN, is_generic : BOOLEAN,
            name_in_email : BOOLEAN, matches_primary_domain : BOOLEAN] :
        f.is_pattern \/ f.is_scraped}

InitGate ==
    /\ FindEmailNotCalled
    /\ gen_call = NotCalled
    /\ smtp_probe = NotCalled
    /\ smtp_retry = NotCalled
    /\ proc = NotCalled
    /\ file_mode = NotCalled
    /\ dns_call = NotCalled
    /\ scrape_call = NotCalled
    /\ \E f \in CandidateFeatures, has_mail_server \in BOOLEAN :
          gate_call = [pc |-> "admit", f |-> f, has_mail_server |-> has_mail_server,
                       confidence |-> 0, should_verify_smtp |-> FALSE]

GateUnchanged ==
    UNCHANGED <<find_vars, gen_call, smtp_probe, smtp_retry, proc, file_mode,
                dns_call, scrape_call>>

\* lines 173-179: continue unless on the domain or scraped and generic
GateAdmit ==
    /\ gate_call.pc = "admit"
    /\ gate_call' = [gate_call EXCEPT !.pc =
          IF admitted(gate_call.f.matches_primary_domain, gate_call.f.is_scraped,
                      gate_call.f.is_generic)
          THEN "score" ELSE "skipped"]
    /\ GateUnchanged

\* lines 184-198
GateScore ==
    /\ gate_call.pc = "score"
    /\ gate_call' = [gate_call EXCEPT
          !.pc = "penalty",
          !.confidence = base_confidence(gate_call.f.is_pattern, gate_call.f.is_scraped,
                             gate_call.f.name_in_email,
                             gate_call.f.matches_primary_domain)]
    /\ GateUnchanged

\* lines 205-219
GatePenalty ==
    /\ gate_call.pc = "penalty"
    /\ gate_call' = [gate_call EXCEPT
          !.pc = "gate",
          !.confidence = generic_penalty(gate_call.confidence, gate_call.f.is_generic,
                                         gate_call.f.name_in_email)]
    /\ GateUnchanged

\* lines 221-222
GateDecide ==
    /\ gate_call.pc = "gate"
    /\ gate_call' = [gate_call EXCEPT
          !.pc = "decided",
          !.should_verify_smtp =
              should_verify_smtp(gate_call.has_mail_server, gate_call.confidence,
                                 gate_call.f.is_scraped, gate_call.f.name_in_email)]
    /\ GateUnchanged

NextGate ==
    \/ GateAdmit
    \/ GateScore
    \/ GatePenalty
    \/ GateDecide

SpecGate == InitGate /\ [][NextGate]_vars

GateDecided == gate_call.pc = "decided"

\* C28: the SMTP gate is 'mail server known and penalised confidence >= 3':
\* for every admitted combination of the features the second disjunct
\* (scraped, name in the local part, confidence > 1) never opens the gate
\* for a confidence below 3.
C28_GateIsThreshold ==
    GateDecided =>
        /\ gate_call.should_verify_smtp <=>
              (gate_call.has_mail_server /\ gate_call.confidence >= 3)
        /\ ~(gate_call.f.is_scraped /\ gate_call.f.name_in_email
               /\ gate_call.confidence = 2)

\* a scraped generic address with the name, brought down to 1 by the
\* penalty, was decided with a mail server known
C28_Witness ==
    /\ GateDecided
    /\ gate_call.has_mail_server
    /\ gate_call.f.is_scraped /\ gate_call.f.name_in_email /\ gate_call.f.is_generic
    /\ gate_call.confidence = 1
    /\ ~gate_call.should_verify_smtp

(* ------------------------------------------------------------------ *)
(* scraper.rs: scrape_website_for_emails step by step                  *)
(* A Url is [host, path]; a host is a domain name or an IP address.    *)
(* Url's equality, hash and to_string() all go by the serialization,   *)
(* so two Urls are the same exactly when the records are.              *)
(* ------------------------------------------------------------------ *)
MaxPages == 2

DomainHost(name) == [kind |-> "domain", name |-> name]
IpHost(addr) == [kind |-> "ip", addr |-> addr]
UrlOf(host, path) == [host |-> host, path |-> path]

\* Url::domain(): the host if it is a domain name, None for an IP address
UrlDomain(url) ==
    IF url.host.kind = "domain" THEN [some |-> TRUE, value |-> url.host.name]
    ELSE [some |-> FALSE, value |-> ""]

BaseUrls ==
    { UrlOf(DomainHost("example.com"), "/"), UrlOf(IpHost("192.0.2.1"), "/") }

\* entries of CONFIG.common_pages_to_scrape: any configured string; a path,
\* an absolute URL, or a string that Url::join rejects
CommonPageEntries ==
    { [kind |-> "path", path |-> "/contact"],
      [kind |-> "path", path |-> "/"],
      [kind |-> "url", url |-> UrlOf(DomainHost("other.org"), "/contact")],
      [kind |-> "url", url |-> UrlOf(IpHost("192.0.2.7"), "/contact")],
      [kind |-> "bad"] }

\* Url::join: a path replaces the base's path, an absolute URL replaces all
UrlJoin(base, page) ==
    IF page.kind = "path" THEN Some(UrlOf(base.host, page.path))
    ELSE IF page.kind = "url" THEN Some(page.url)
    ELSE None

\* lines 33-52: the base, then every joined URL whose domain() is the base's
RECURSIVE PlannedUrls(_, _)
PlannedUrls(base, pages) ==
    IF pages = << >> THEN <<base>>
    ELSE LET front == PlannedUrls(base, SubSeq(pages, 1, Len(pages) - 1))
             joined == UrlJoin(base, pages[Len(pages)])
         IN  IF joined.some /\ UrlDomain(joined.value) = UrlDomain(base)
             THEN Append(front, joined.value)
             ELSE front

\* what a fetched page may hold: an address, and a link to another page
LinkedUrl == UrlOf(DomainHost("example.com"), "/imprint")
PageAddress == <<"i", "n", "f", "o", "@", "e", "x", "a", "m", "p", "l", "e", ".", "c", "o", "m">>
\* send().await, status, Content-Type and text().await of one GET
FetchOutcomes == {"error", "not_found", "not_html", "unreadable", "html"}

InitScrape ==
    /\ FindEmailNotCalled
    /\ gen_call = NotCalled
    /\ smtp_probe = NotCalled
    /\ smtp_retry = NotCalled
    /\ proc = NotCalled
    /\ file_mode = NotCalled
    /\ dns_call = NotCalled
    /\ \E base \in BaseUrls,
          pages \in UNION {[1..k -> CommonPageEntries] : k \in 0..MaxPages} :
          scrape_call = [pc |-> "plan", base_url |-> base, common_pages |-> pages,
                         urls_to_visit |-> << >>, processed_urls |-> {},
                         requested |-> << >>, links_seen |-> {},
                         found_emails |-> << >>, any_page_successful |-> FALSE,
                         ret |-> None]
    /\ gate_call = NotCalled

ScrapeUnchanged ==
    UNCHANGED <<find_vars, gen_call, smtp_probe, smtp_retry, proc, file_mode,
                dns_call, gate_call>>

\* lines 33-56: the queue is rebuilt from a HashSet of the planned URLs
ScrapePlan ==
    /\ scrape_call.pc = "plan"
    /\ \E seed \in HashSeeds :
          scrape_call' = [scrape_call EXCEPT
              !.pc = "loop",
              !.urls_to_visit =
                  HashSetIter(PlannedUrls(scrape_call.base_url,
                                          scrape_call.common_pages), seed)]
    /\ ScrapeUnchanged

\* lines 66-183: one iteration of `while let Some(page_url) = pop_front()`
ScrapeVisit ==
    /\ scrape_call.pc = "loop"
    /\ scrape_call.urls_to_visit # << >>
    /\ LET page_url == Head(scrape_call.urls_to_visit)
           popped == [scrape_call EXCEPT !.urls_to_visit = Tail(@)]
       IN  IF page_url \in scrape_call.processed_urls
           THEN scrape_call' = popped
           ELSE \E outcome \in FetchOutcomes :
                  LET sent == [popped EXCEPT
                                  !.processed_urls = @ \cup {page_url},
                                  !.requested = Append(@, page_url)]
                  IN  scrape_call' =
                         IF outcome \in {"error", "not_found"} THEN sent
                         ELSE IF outcome \in {"not_html", "unreadable"}
                         THEN [sent EXCEPT !.any_page_successful = TRUE]
                         ELSE [sent EXCEPT
                                  !.any_page_successful = TRUE,
                                  !.links_seen = @ \cup {LinkedUrl},
                                  !.found_emails =
                                      Append(@, to_lowercase(PageAddress))]
    /\ ScrapeUnchanged

\* lines 185-203: the queue is empty; the filtered addresses are returned
ScrapeReturn ==
    /\ scrape_call.pc = "loop"
    /\ scrape_call.urls_to_visit = << >>
    /\ \E seed \in HashSeeds :
          scrape_call' = [scrape_call EXCEPT
              !.pc = "returned",
              !.ret = Some(scrape_website_for_emails(scrape_call.found_emails, seed))]
    /\ ScrapeUnchanged

NextScrape ==
    \/ ScrapePlan
    \/ ScrapeVisit
    \/ ScrapeReturn

SpecScrape == InitScrape /\ [][NextScrape]_vars

ScrapeCalled == scrape_call.pc # "not_called"
\* the base URL, or a configured entry joined to it that stays on its host
FromConfiguredPageOnSameHost(url) ==
    \/ url = scrape_call.base_url
    \/ \E i \in 1..Len(scrape_call.common_pages) :
          /\ UrlJoin(scrape_call.base_url, scrape_call.common_pages[i]).some
          /\ UrlJoin(scrape_call.base_url, scrape_call.common_pages[i]).value = url
          /\ url.host = scrape_call.base_url.host

\* C27: the scraper requests only the base URL and same-host URLs joined
\* from the configured common pages, each distinct URL at most once, never
\* a URL found in page content; the number of requests is bounded by the
\* plan, and with the queue empty it returns a (possibly empty) list.
C27_OnlyPlannedSameHostUrls ==
    ScrapeCalled =>
        /\ \A i \in 1..Len(scrape_call.requested) :
              /\ FromConfiguredPageOnSameHost(scrape_call.requested[i])
              /\ scrape_call.requested[i] \notin
                    scrape_call.links_seen \ {scrape_call.base_url}
        /\ NoRepeats(scrape_call.requested)
        /\ Len(scrape_call.requested) + Len(scrape_call.urls_to_visit)
              <= 1 + Len(scrape_call.common_pages)
        /\ scrape_call.pc = "returned" => scrape_call.ret.some

(* ------------------------------------------------------------------ *)
(* main.rs, file mode: what is saved                                   *)
(* ------------------------------------------------------------------ *)
FileSaved == file_mode.pc = "saved"
TimesSaved(r) ==
    Cardinality({i \in 1..Len(file_mode.saved) : file_mode.saved[i] = r})

\* a task is running (and will end), a result waits to be collected, the
\* loop can spawn or end, or everything is collected and can be saved
FileCanProceed ==
    \/ file_mode.running # {}
    \/ file_mode.finished \cup file_mode.panicked # {}
    \/ /\ file_mode.pc = "loop"
       /\ \/ file_mode.next > file_mode.total_records
          \/ ~at_capacity(TasksLen(file_mode), file_mode.max_concurrency)
    \/ file_mode.pc = "drain" /\ TasksLen(file_mode) = 0

\* C30: in file mode, if no task panics, every loaded record has exactly one
\* ProcessingResult in the saved output: when the results are written every
\* spawned task has been awaited and its result collected, and before that
\* the run can always go on (a task can end, be collected or be spawned),
\* for every number of records and every max_concurrency >= 1.
C30_EveryRecordSavedOnce ==
    /\ file_mode.pc \in {"loop", "drain"} => FileCanProceed
    /\ FileSaved =>
          /\ TasksLen(file_mode) = 0
          /\ file_mode.next = file_mode.total_records + 1
          /\ file_mode.panics = 0 =>
                /\ Len(file_mode.saved) = file_mode.total_records
                /\ \A r \in 1..file_mode.total_records : TimesSaved(r) = 1

\* no panic, more records than the limit, and the saved order is not the
\* order in which the results were collected
C30_Witness ==
    /\ FileSaved
    /\ file_mode.panics = 0
    /\ file_mode.total_records > file_mode.max_concurrency
    /\ file_mode.spawned_at_capacity
    /\ file_mode.saved # file_mode.processed_records

====
